---- MODULE Spec2Model ----
(***************************************************************************)
(* Jira story resolution of TestCaseStudio                                *)
(* (backend/src/services/jiraService.ts): the ADF and HTML to plain-text  *)
(* helpers and getStory's resolution of description and acceptance        *)
(* criteria, the Jira proxy router with the requests its services send    *)
(* upstream, and the page's review of the generated test cases and its    *)
(* 'Create Jira Subtask' flow.                                            *)
(*                                                                        *)
(* A JavaScript string is a sequence of one-character strings; a          *)
(* JavaScript value is a record tagged by its type in field t.            *)
(***************************************************************************)
EXTENDS Integers, Sequences, FiniteSets, TLC

VARIABLES
    hin,      \* SpecHtml: the drawn input of htmlToPlain
    hout,     \* SpecHtml: htmlToPlain's result, NotRun before the call
    doc,      \* SpecAdf: the drawn argument of adfToPlain
    split,    \* SpecAdf: adfToPlain's result, NotRun before the call
    segs,     \* SpecSection: the drawn pieces of the HTML document
    sect,     \* SpecSection: extractSectionByHeading's result, NotRun before the call
    env,      \* Spec: process.env.JIRA_AC_FIELD_KEY
    resp,     \* Spec: the upstream response: a body, or a network/auth failure
    pc,       \* Spec: getStory's position
    data,     \* Spec: getStory's local `data`
    acPlain,  \* Spec: getStory's local `acPlain`
    descriptionPlain, \* Spec: getStory's local `descriptionPlain`
    result,   \* Spec: what getStory returned or threw
    session,  \* the client's session as the router reads it off the request
    upstream, \* the requests sent to Jira so far, in the order they were sent
    req,      \* the request the router served last or is serving, NotRun before
    reply,    \* the HTTP response of the route last answered, NotRun before
    called,   \* SpecService: the name of the service function called, "none" before the call
    formData, \* App: the story form
    results,  \* App: the generated test cases, null before the first generation
    expandedTestCases, \* App: the ids of the expanded rows
    selectedStory,     \* App: the linked story, null when none is
    checkedTestCases,  \* App: the ids of the ticked rows
    approvedTestCases, \* App: the ids approved
    rejectedTestCases, \* App: the ids rejected
    step,     \* App: handleCreateSubtaskWithFile's position
    posted,   \* App: the requests the page sent to the proxy, in order
    alerts    \* App: the alerts shown, in order

uiVars == <<called, formData, results, expandedTestCases, selectedStory, checkedTestCases,
           approvedTestCases, rejectedTestCases, step, posted, alerts>>

vars == <<hin, hout, doc, split, segs, sect, env, resp, pc, data, acPlain, descriptionPlain,
         result, session, upstream, req, reply, uiVars>>

-----------------------------------------------------------------------------
(* JavaScript values *)

Undefined == [t |-> "undefined"]
Null == [t |-> "null"]
Str(s) == [t |-> "string", s |-> s]
Num(n) == [t |-> "number", n |-> n]
Arr(a) == [t |-> "array", a |-> a]
\* An object is its own properties in insertion order: <<key, value>> pairs.
Obj(kv) == [t |-> "object", kv |-> kv]
\* A thrown exception, as the outcome of an evaluation: e is its message.
Throw(e) == [t |-> "throw", e |-> e]
NotRun == [t |-> "notrun"]

IsThrow(v) == v.t = "throw"
IsString(v) == v.t = "string"

\* ToBoolean
Truthy(v) ==
    CASE v.t = "undefined" -> FALSE
      [] v.t = "null" -> FALSE
      [] v.t = "string" -> v.s # <<>>
      [] v.t = "number" -> v.n # 0
      [] v.t = "boolean" -> v.b
      [] OTHER -> TRUE

HasOwn(o, k) == o.t = "object" /\ \E i \in 1..Len(o.kv) : o.kv[i][1] = k

\* o[k] for a value that is not null or undefined: own properties of objects;
\* the model's strings, numbers and arrays carry none of the keys read here.
Get(o, k) ==
    IF HasOwn(o, k)
    THEN o.kv[CHOOSE i \in 1..Len(o.kv) : o.kv[i][1] = k /\ \A j \in (i+1)..Len(o.kv) : o.kv[j][1] # k][2]
    ELSE Undefined

IsNullish(v) == v.t \in {"undefined", "null"}

\* o?.k
OptGet(o, k) == IF IsNullish(o) THEN Undefined ELSE Get(o, k)

-----------------------------------------------------------------------------
(* Characters *)

UpperCase == <<"A","B","C","D","E","F","G","H","I","J","K","L","M","N","O","P","Q","R","S","T","U","V","W","X","Y","Z">>
LowerCase == <<"a","b","c","d","e","f","g","h","i","j","k","l","m","n","o","p","q","r","s","t","u","v","w","x","y","z">>
DecDigits == <<"0","1","2","3","4","5","6","7","8","9">>
\* The printable ASCII characters, code 32 first.
Printable == <<" ","!","\"","#","$","%","&","'","(",")","*","+",",","-",".","/","0","1","2","3","4","5","6","7","8","9",":",";","<","=",">","?","@","A","B","C","D","E","F","G","H","I","J","K","L","M","N","O","P","Q","R","S","T","U","V","W","X","Y","Z","[","\\","]","^","_","U+0060","a","b","c","d","e","f","g","h","i","j","k","l","m","n","o","p","q","r","s","t","u","v","w","x","y","z","{","|","}","~">>
\* U+00A0, and any code unit the table below does not name.
NBSP == "U+00A0"
OtherChar == "U+????"

\* The i flag of a regular expression, on ASCII letters.
Lower(c) ==
    IF \E k \in 1..Len(UpperCase) : UpperCase[k] = c
    THEN LowerCase[CHOOSE k \in 1..Len(UpperCase) : UpperCase[k] = c]
    ELSE c

\* \s of a regular expression and the characters String.prototype.trim strips.
WhiteSpace == {" ", "\t", "\n", "\r", "\f", NBSP}
IsWS(c) == c \in WhiteSpace

IsDigit(c) == \E k \in 1..Len(DecDigits) : DecDigits[k] = c
DigitVal(c) == (CHOOSE k \in 1..Len(DecDigits) : DecDigits[k] = c) - 1

\* String.fromCharCode: the code unit n modulo 2^16
fromCharCode(n) ==
    LET u == n % 65536 IN
    CASE u >= 32 /\ u <= 126 -> Printable[u - 31]
      [] u = 9 -> "\t"
      [] u = 10 -> "\n"
      [] u = 12 -> "\f"
      [] u = 13 -> "\r"
      [] u = 160 -> NBSP
      [] OTHER -> OtherChar

RECURSIVE parseInt10(_)
\* parseInt(d, 10) of a string of decimal digits
parseInt10(d) ==
    IF d = <<>> THEN 0 ELSE 10 * parseInt10(SubSeq(d, 1, Len(d) - 1)) + DigitVal(d[Len(d)])

-----------------------------------------------------------------------------
(* Strings and regular-expression matching *)

MinOf(S) == CHOOSE x \in S : \A y \in S : x <= y
MaxOf(S) == CHOOSE x \in S : \A y \in S : x >= y

\* The literal lit stands in s at index i.
LitAt(s, i, lit) ==
    /\ i >= 1
    /\ i + Len(lit) - 1 <= Len(s)
    /\ \A j \in 1..Len(lit) : s[i + j - 1] = lit[j]

\* The same under the i flag; lit is given in lower case.
LitAtCI(s, i, lit) ==
    /\ i >= 1
    /\ i + Len(lit) - 1 <= Len(s)
    /\ \A j \in 1..Len(lit) : Lower(s[i + j - 1]) = lit[j]

\* The index after the longest run of characters of C starting at i (C*).
SkipWhile(s, i, C) == MinOf({j \in i..Len(s) : s[j] \notin C} \cup {Len(s) + 1})

\* \s*
SkipWS(s, i) == SkipWhile(s, i, WhiteSpace)

\* [^>]*: the index of the first ">" at or after i, Len(s) + 1 if there is none
NextGT(s, i) == MinOf({j \in i..Len(s) : s[j] = ">"} \cup {Len(s) + 1})

\* String.prototype.trim
Trim(s) ==
    LET keep == {j \in 1..Len(s) : ~IsWS(s[j])} IN
    IF keep = {} THEN <<>> ELSE SubSeq(s, MinOf(keep), MaxOf(keep))

\* A match of <name[^>]*> (open is "<name") at i: the index after it, 0 if none.
OpenTagEnd(s, i, open) ==
    IF LitAtCI(s, i, open)
    THEN LET g == NextGT(s, i + Len(open)) IN IF g <= Len(s) THEN g + 1 ELSE 0
    ELSE 0

\* The rules of htmlToPlain and decodeHtmlEntities, each a global replace.
\* MatchEnd is the index after the match of the rule's pattern at i, 0 if the
\* pattern does not match at i.
MatchEnd(rule, s, i) ==
    CASE rule.kind = "lit" ->            \* a literal
           IF LitAt(s, i, rule.pat) THEN i + Len(rule.pat) ELSE 0
      [] rule.kind = "litci" ->          \* a literal under the i flag
           IF LitAtCI(s, i, rule.pat) THEN i + Len(rule.pat) ELSE 0
      [] rule.kind = "lili" ->           \* /<\/li>\s*<li>/gi
           IF LitAtCI(s, i, <<"<","/","l","i",">">>)
           THEN LET j == SkipWS(s, i + 5) IN IF LitAtCI(s, j, <<"<","l","i",">">>) THEN j + 4 ELSE 0
           ELSE 0
      [] rule.kind = "open" ->           \* /<li[^>]*>/gi, /<p[^>]*>/gi
           OpenTagEnd(s, i, rule.pat)
      [] rule.kind = "br" ->             \* /<br\s*\/?>/gi
           IF LitAtCI(s, i, <<"<","b","r">>)
           THEN LET j == SkipWS(s, i + 3)
                    k == IF j <= Len(s) /\ s[j] = "/" THEN j + 1 ELSE j
                IN  IF k <= Len(s) /\ s[k] = ">" THEN k + 1 ELSE 0
           ELSE 0
      [] rule.kind = "pp" ->             \* /<\/p>\s*<p[^>]*>/gi
           IF LitAtCI(s, i, <<"<","/","p",">">>) THEN OpenTagEnd(s, SkipWS(s, i + 4), <<"<","p">>) ELSE 0
      [] rule.kind = "tag" ->            \* /<[^>]+>/g
           IF LitAt(s, i, <<"<">>) /\ i + 1 <= Len(s) /\ s[i + 1] # ">"
           THEN LET g == NextGT(s, i + 1) IN IF g <= Len(s) THEN g + 1 ELSE 0
           ELSE 0
      [] rule.kind = "numref" ->         \* /&#(\d+);/g
           IF LitAt(s, i, <<"&","#">>)
           THEN LET j == SkipWhile(s, i + 2, {DecDigits[k] : k \in 1..Len(DecDigits)})
                IN  IF j > i + 2 /\ j <= Len(s) /\ s[j] = ";" THEN j + 1 ELSE 0
           ELSE 0
      [] rule.kind = "spnl" ->           \* /[ \t]+\n/g
           IF s[i] \in {" ", "\t"}
           THEN LET j == SkipWhile(s, i, {" ", "\t"})
                IN  IF j <= Len(s) /\ s[j] = "\n" THEN j + 1 ELSE 0
           ELSE 0
      [] rule.kind = "nl3" ->            \* /\n{3,}/g
           IF s[i] = "\n"
           THEN LET j == SkipWhile(s, i, {"\n"}) IN IF j - i >= 3 THEN j ELSE 0
           ELSE 0

\* What replaces the match s[i..e-1].
Replacement(rule, s, i, e) ==
    IF rule.kind = "numref"
    THEN <<fromCharCode(parseInt10(SubSeq(s, i + 2, e - 2)))>>
    ELSE rule.to

\* The least element of a set of indices, 0 for the empty set.
MinOrZero(S) == IF S = {} THEN 0 ELSE MinOf(S)

\* The index of the leftmost match of the rule's pattern at or after i, 0 if
\* there is none.
NextMatch(rule, s, i) == MinOrZero({j \in i..Len(s) : MatchEnd(rule, s, j) > 0})

RECURSIVE ReplaceFrom(_, _, _)

\* The match s[j..e-1] replaced, then on from the end of the match.
ReplaceSpan(rule, s, i, j, e) ==
    SubSeq(s, i, j - 1) \o Replacement(rule, s, j, e) \o ReplaceFrom(rule, s, e)

\* The text from i on whose leftmost match starts at j (0: no match).
ReplaceAt(rule, s, i, j) ==
    IF j = 0 THEN SubSeq(s, i, Len(s)) ELSE ReplaceSpan(rule, s, i, j, MatchEnd(rule, s, j))

\* s.replace(/pattern/g, replacement) from index i on: the text up to the
\* leftmost match, its replacement, then on from the end of the match.
ReplaceFrom(rule, s, i) == ReplaceAt(rule, s, i, NextMatch(rule, s, i))

ReplaceAll(rule, s) == ReplaceFrom(rule, s, 1)

Rule(kind, pat, to) == [kind |-> kind, pat |-> pat, to |-> to]

RECURSIVE ApplyRules(_, _)

\* The remaining rules applied to the output of the first.
ApplyRest(rules, out) == IF Len(out) >= 0 THEN ApplyRules(Tail(rules), out) ELSE out

\* A chain of .replace calls, first rule first.
ApplyRules(rules, s) ==
    IF rules = <<>> THEN s ELSE ApplyRest(rules, ReplaceAll(Head(rules), s))

-----------------------------------------------------------------------------
(* HTML -> plain text helpers *)

\* The .replace calls of decodeHtmlEntities, in their order.
EntityRules ==
    << Rule("lit", <<"&","n","b","s","p",";">>, <<" ">>),
       Rule("lit", <<"&","a","m","p",";">>, <<"&">>),
       Rule("lit", <<"&","l","t",";">>, <<"<">>),
       Rule("lit", <<"&","g","t",";">>, <<">">>),
       Rule("lit", <<"&","q","u","o","t",";">>, <<"\"">>),
       Rule("lit", <<"&","#","3","9",";">>, <<"'">>),
       Rule("numref", <<>>, <<>>) >>

decodeHtmlEntities(s) == ApplyRules(EntityRules, s)

\* What '</li>\s*<li>' becomes.
ListItemJoin_none == <<"<","/","l","i",">","<","l","i",">">>

ListItemJoin == <<"<","/","l","i",">","\n","<","l","i",">">>

\* What '<li...>' becomes.
ListItemBullet == <<"\n","-"," ">>

\* What '</p>\s*<p...>' becomes.
ParagraphJoin_single == <<"\n">>

ParagraphJoin == <<"\n","\n">>

\* The tag rules of htmlToPlain, before the remaining tags are stripped.
TagRules ==
    << Rule("lili", <<>>, ListItemJoin),
       Rule("open", <<"<","l","i">>, ListItemBullet),
       Rule("litci", <<"<","/","l","i",">">>, <<>>),
       Rule("br", <<>>, <<"\n">>),
       Rule("pp", <<>>, ParagraphJoin),
       Rule("open", <<"<","p">>, <<>>),
       Rule("litci", <<"<","/","p",">">>, <<"\n">>),
       Rule("tag", <<>>, <<>>) >>

\* decode & clean
CleanRules ==
    << Rule("lit", <<"\r">>, <<>>),
       Rule("spnl", <<>>, <<"\n">>),
       Rule("nl3", <<>>, <<"\n","\n">>) >>

\* htmlToPlain on a value: a falsy one gives '', a string is converted, and
\* any other value has no .replace method.
htmlToPlain_unguarded(html) ==
    IF ~IsString(html) THEN Throw(<<"o","u","t",".","r","e","p","l","a","c","e"," ","i","s"," ","n","o","t"," ","a"," ","f","u","n","c","t","i","o","n">>)
    ELSE Str(Trim(ApplyRules(CleanRules, decodeHtmlEntities(ApplyRules(TagRules, html.s)))))

htmlToPlain(html) ==
    IF ~Truthy(html) THEN Str(<<>>)
    ELSE IF ~IsString(html) THEN Throw(<<"o","u","t",".","r","e","p","l","a","c","e"," ","i","s"," ","n","o","t"," ","a"," ","f","u","n","c","t","i","o","n">>)
    ELSE Str(Trim(ApplyRules(CleanRules, decodeHtmlEntities(ApplyRules(TagRules, html.s)))))

-----------------------------------------------------------------------------
(* ADF (Atlassian Document Format) helpers *)

K_type == <<"t","y","p","e">>
K_text == <<"t","e","x","t">>
K_content == <<"c","o","n","t","e","n","t">>
K_description == <<"d","e","s","c","r","i","p","t","i","o","n">>
K_acceptanceCriteria == <<"a","c","c","e","p","t","a","n","c","e","C","r","i","t","e","r","i","a">>

RECURSIVE NatToString(_)
NatToString(n) ==
    IF n < 10 THEN <<DecDigits[n + 1]>> ELSE NatToString(n \div 10) \o <<DecDigits[(n % 10) + 1]>>

RECURSIVE JsToString(_)
RECURSIVE JoinValues(_, _)

\* Array.prototype.join: null and undefined elements give '', the others
\* their ToString.
JoinValues(a, sep) ==
    IF a = <<>> THEN <<>>
    ELSE LET h == IF IsNullish(a[1]) THEN <<>> ELSE JsToString(a[1])
         IN  IF Len(a) = 1 THEN h ELSE h \o sep \o JoinValues(Tail(a), sep)

\* ToString of a value
JsToString(v) ==
    CASE v.t = "string" -> v.s
      [] v.t = "number" -> IF v.n < 0 THEN <<"-">> \o NatToString(-v.n) ELSE NatToString(v.n)
      [] v.t = "undefined" -> <<"u","n","d","e","f","i","n","e","d">>
      [] v.t = "null" -> <<"n","u","l","l">>
      [] v.t = "array" -> JoinValues(v.a, <<",">>)
      [] v.t = "object" -> <<"[","o","b","j","e","c","t"," ","O","b","j","e","c","t","]">>

\* x || y
OrElse(x, y) == IF Truthy(x) THEN x ELSE y

\* The first thrown outcome of a sequence of outcomes, NotRun if none threw.
FirstThrow(rs) ==
    IF \E i \in 1..Len(rs) : IsThrow(rs[i])
    THEN rs[CHOOSE i \in 1..Len(rs) : IsThrow(rs[i]) /\ \A j \in 1..(i - 1) : ~IsThrow(rs[j])]
    ELSE NotRun

RECURSIVE extractTextFromNode(_)

\* rs.join(sep) of the texts of the children, or what the first failing
\* child threw.
JoinTexts(rs, sep) == IF IsThrow(FirstThrow(rs)) THEN FirstThrow(rs) ELSE Str(JoinValues(rs, sep))

\* content.map(extractTextFromNode).join(sep): a content that is no array
\* has no .map method.
JoinContent(content, sep) ==
    IF content.t # "array" THEN Throw(<<"(","n","o","d","e",".","c","o","n","t","e","n","t"," ","|","|"," ","[","]",")",".","m","a","p"," ","i","s"," ","n","o","t"," ","a"," ","f","u","n","c","t","i","o","n">>)
    ELSE JoinTexts([i \in 1..Len(content.a) |-> extractTextFromNode(content.a[i])], sep)

\* (node.content || []).map(extractTextFromNode).join(sep)
MapJoin(node, sep) == JoinContent(OrElse(Get(node, K_content), Arr(<<>>)), sep)

\* text.trim() ? `- ${text.trim()}` : ''
ListItemText_nobullet(text) ==
    IF IsThrow(text) THEN text ELSE Str(Trim(text.s))

ListItemText(text) ==
    IF IsThrow(text) THEN text
    ELSE IF Trim(text.s) # <<>> THEN Str(<<"-"," ">> \o Trim(text.s)) ELSE Str(<<>>)

\* The branch of extractTextFromNode for a node of this type.
TextOfType(node, type) ==
    IF type = Str(<<"t","e","x","t">>) THEN OrElse(Get(node, K_text), Str(<<>>))
    ELSE IF type = Str(<<"p","a","r","a","g","r","a","p","h">>) THEN MapJoin(node, <<>>)
    ELSE IF type = Str(<<"b","u","l","l","e","t","L","i","s","t">>) \/ type = Str(<<"o","r","d","e","r","e","d","L","i","s","t">>) THEN MapJoin(node, <<"\n">>)
    ELSE IF type = Str(<<"l","i","s","t","I","t","e","m">>) THEN ListItemText(MapJoin(node, <<" ">>))
    ELSE IF Truthy(Get(node, K_content)) /\ Get(node, K_content).t = "array" THEN MapJoin(node, <<"\n">>)
    ELSE Str(<<>>)

\* Recursively extracts text from ADF nodes
extractTextFromNode(node) ==
    IF ~Truthy(node) THEN Str(<<>>) ELSE TextOfType(node, Get(node, K_type))

\* /^acceptance\s*criteria\s*:?\s*$/i.test(text)
ACHeadingTest(text) ==
    /\ LitAtCI(text, 1, <<"a","c","c","e","p","t","a","n","c","e">>)
    /\ LET j == SkipWS(text, 11) IN
       /\ LitAtCI(text, j, <<"c","r","i","t","e","r","i","a">>)
       /\ LET k == SkipWS(text, j + 8)
              m == IF k <= Len(text) /\ text[k] = ":" THEN k + 1 ELSE k
          IN  SkipWS(text, m) = Len(text) + 1

\* Whether the node with this text is the heading: line 92.
IsACHeading_everyMatch(foundACHeading, text) == ACHeadingTest(text)

IsACHeading(foundACHeading, text) == ~foundACHeading /\ ACHeadingTest(text)

\* array.push(text) under `if (text)`
PushIf_always(arr, text) == Append(arr, text)

PushIf(arr, text) == IF text # <<>> THEN Append(arr, text) ELSE arr

\* The elements content[0..content.length-1] of the loop of adfToPlain:
\* those of an array, the characters of a string, none for any other value.
LoopElements(content) ==
    CASE content.t = "array" -> content.a
      [] content.t = "string" -> [i \in 1..Len(content.s) |-> Str(<<content.s[i]>>)]
      [] OTHER -> <<>>

\* beforeAC.join('\n').trim() and acContent.join('\n').trim()
JoinLines(lines) == Str(Trim(JoinValues([j \in 1..Len(lines) |-> Str(lines[j])], <<"\n">>)))

RECURSIVE adfLoop(_, _, _, _, _)

\* One turn of the loop on the trimmed text of content[i].
adfText(content, i, beforeAC, acContent, foundACHeading, text) ==
    IF IsACHeading(foundACHeading, text)
    THEN adfLoop(content, i + 1, beforeAC, acContent, TRUE)
    ELSE IF foundACHeading
    THEN adfLoop(content, i + 1, beforeAC, PushIf(acContent, text), foundACHeading)
    ELSE adfLoop(content, i + 1, PushIf(beforeAC, text), acContent, foundACHeading)

\* extractTextFromNode(node).trim() of the outcome r of extractTextFromNode.
adfNode(content, i, beforeAC, acContent, foundACHeading, r) ==
    IF IsThrow(r) THEN r
    ELSE IF ~IsString(r) THEN Throw(<<"e","x","t","r","a","c","t","T","e","x","t","F","r","o","m","N","o","d","e","(",".",".",".",")",".","t","r","i","m"," ","i","s"," ","n","o","t"," ","a"," ","f","u","n","c","t","i","o","n">>)
    ELSE adfText(content, i, beforeAC, acContent, foundACHeading, Trim(r.s))

\* The loop of adfToPlain from index i on.
adfLoop(content, i, beforeAC, acContent, foundACHeading) ==
    IF i > Len(content)
    THEN Obj(<< <<K_description, JoinLines(beforeAC)>>,
                <<K_acceptanceCriteria, JoinLines(acContent)>> >>)
    ELSE adfNode(content, i, beforeAC, acContent, foundACHeading, extractTextFromNode(content[i]))

EmptySplit == Obj(<< <<K_description, Str(<<>>)>>, <<K_acceptanceCriteria, Str(<<>>)>> >>)

\* Extracts plain text from ADF format, with AC detection and separation
adfToPlain(adfJson) ==
    IF ~Truthy(adfJson) \/ adfJson.t \notin {"object", "array"} THEN EmptySplit
    ELSE adfLoop(LoopElements(OrElse(Get(adfJson, K_content), Arr(<<>>))), 1, <<>>, <<>>, FALSE)

\* The nodes of the ADF schema, as the payloads build them.
TextNode(s) == Obj(<< <<K_type, Str(<<"t","e","x","t">>)>>, <<K_text, Str(s)>> >>)
Paragraph(s) == Obj(<< <<K_type, Str(<<"p","a","r","a","g","r","a","p","h">>)>>, <<K_content, Arr(<<TextNode(s)>>)>> >>)
Heading(s) == Obj(<< <<K_type, Str(<<"h","e","a","d","i","n","g">>)>>, <<K_content, Arr(<<TextNode(s)>>)>> >>)
ListItem(s) == Obj(<< <<K_type, Str(<<"l","i","s","t","I","t","e","m">>)>>, <<K_content, Arr(<<Paragraph(s)>>)>> >>)
BulletList(items) == Obj(<< <<K_type, Str(<<"b","u","l","l","e","t","L","i","s","t">>)>>, <<K_content, Arr(items)>> >>)
AdfDoc(nodes) == Obj(<< <<K_type, Str(<<"d","o","c">>)>>, <<K_content, Arr(nodes)>> >>)

-----------------------------------------------------------------------------
(* JSON *)

RECURSIVE Flatten(_)
\* The concatenation of a sequence of strings.
Flatten(ss) == IF ss = <<>> THEN <<>> ELSE Head(ss) \o Flatten(Tail(ss))

\* A character inside a JSON string literal.
JsonChar(c) ==
    CASE c = "\"" -> <<"\\","\"">>
      [] c = "\\" -> <<"\\","\\">>
      [] c = "\n" -> <<"\\","n">>
      [] c = "\r" -> <<"\\","r">>
      [] c = "\t" -> <<"\\","t">>
      [] c = "\f" -> <<"\\","f">>
      [] OTHER -> <<c>>

JsonQuote(s) == <<"\"">> \o Flatten([i \in 1..Len(s) |-> JsonChar(s[i])]) \o <<"\"">>

RECURSIVE JsonText(_)
RECURSIVE JsonList(_, _)

\* The texts of a sequence joined by commas; kind "array" for elements,
\* "object" for <<key, value>> properties, those with an undefined value
\* left out.
JsonList(kind, xs) ==
    IF xs = <<>> THEN <<>>
    ELSE LET x == Head(xs)
             rest == JsonList(kind, Tail(xs))
             this == IF kind = "array"
                     THEN (IF x.t = "undefined" THEN <<"n","u","l","l">> ELSE JsonText(x))
                     ELSE (IF x[2].t = "undefined" THEN <<>> ELSE JsonQuote(x[1]) \o <<":">> \o JsonText(x[2]))
         IN  IF this = <<>> THEN rest
             ELSE IF rest = <<>> THEN this
             ELSE this \o <<",">> \o rest

\* The JSON text of a value that is not undefined.
JsonText(v) ==
    CASE v.t = "string" -> JsonQuote(v.s)
      [] v.t = "number" -> JsToString(v)
      [] v.t = "null" -> <<"n","u","l","l">>
      [] v.t = "array" -> <<"[">> \o JsonList("array", v.a) \o <<"]">>
      [] v.t = "object" -> <<"{">> \o JsonList("object", v.kv) \o <<"}">>

\* JSON.stringify(v)
JSONstringify(v) == IF v.t = "undefined" THEN Undefined ELSE Str(JsonText(v))

-----------------------------------------------------------------------------
(* The Jira proxy: credentials and upstream requests *)

Bool(b) == [t |-> "boolean", b |-> b]

\* The code unit of an ASCII character.
CharCode(c) == 31 + CHOOSE k \in 1..Len(Printable) : Printable[k] = c

Base64Digits == <<"A","B","C","D","E","F","G","H","I","J","K","L","M","N","O","P","Q","R","S","T","U","V","W","X","Y","Z","a","b","c","d","e","f","g","h","i","j","k","l","m","n","o","p","q","r","s","t","u","v","w","x","y","z","0","1","2","3","4","5","6","7","8","9","+","/">>

RECURSIVE base64(_)
\* Buffer.from(s).toString('base64') on the bytes of s: four digits for
\* every three bytes, the last group padded with '='.
base64(bytes) ==
    IF bytes = <<>> THEN <<>>
    ELSE LET n == Len(bytes)
             b1 == bytes[1]
             b2 == IF n >= 2 THEN bytes[2] ELSE 0
             b3 == IF n >= 3 THEN bytes[3] ELSE 0
         IN  << Base64Digits[(b1 \div 4) + 1],
                Base64Digits[((b1 % 4) * 16) + (b2 \div 16) + 1],
                IF n >= 2 THEN Base64Digits[((b2 % 16) * 4) + (b3 \div 64) + 1] ELSE "=",
                IF n >= 3 THEN Base64Digits[(b3 % 64) + 1] ELSE "=" >>
             \o base64(SubSeq(bytes, 4, n))

\* `Basic ${Buffer.from(`${email}:${apiToken}`).toString('base64')}`
BasicAuth(email, apiToken) ==
    <<"B","a","s","i","c"," ">> \o base64([i \in 1..(Len(email) + 1 + Len(apiToken)) |->
                             CharCode((email \o <<":">> \o apiToken)[i])])

\* baseUrl.replace(/\/$/, '')
StripSlash(url) ==
    IF url # <<>> /\ url[Len(url)] = "/" THEN SubSeq(url, 1, Len(url) - 1) ELSE url

\* The credentials /connect saves in the session.
Creds(baseUrl, email, apiToken) ==
    Obj(<< <<<<"b","a","s","e","U","r","l">>, Str(StripSlash(baseUrl))>>,
           <<<<"a","u","t","h","H","e","a","d","e","r">>, Str(BasicAuth(email, apiToken))>> >>)

\* (req as any).session?.jiraCreds
CredsOf(sess) == OptGet(sess, <<"j","i","r","a","C","r","e","d","s">>)

Connected_baseUrlOnly(creds) ==
    /\ Truthy(creds)
    /\ Truthy(Get(creds, <<"b","a","s","e","U","r","l">>))

\* requireConnection does not throw.
Connected(creds) ==
    /\ Truthy(creds)
    /\ Truthy(Get(creds, <<"b","a","s","e","U","r","l">>))
    /\ Truthy(Get(creds, <<"a","u","t","h","H","e","a","d","e","r">>))

NotConnected == Throw(<<"N","o","t"," ","c","o","n","n","e","c","t","e","d"," ","t","o"," ","J","i","r","a">>)

\* A failed request, as axios rejects it: the status and the data of the
\* response, status 0 and data undefined when there was no response, and the
\* message of the error.
Failure(status, d, message) == [ok |-> FALSE, status |-> status, data |-> d, message |-> message]

\* A request that was answered with a body.
Success(body) == [ok |-> TRUE, body |-> body]

\* `status ? `HTTP ${status} - ${JSON.stringify(msg)}` : String(msg)`
Combined(status, msg) ==
    IF status # 0
    THEN <<"H","T","T","P"," ">> \o NatToString(status) \o <<" ","-"," ">> \o JSONstringify(msg).s
    ELSE JsToString(msg)

\* The message of the error request throws for a failure:
\* msg = data?.errorMessages || data || err.message || 'Unknown error'.
RequestError(f) ==
    Combined(f.status,
             OrElse(OrElse(OrElse(OptGet(f.data, <<"e","r","r","o","r","M","e","s","s","a","g","e","s">>), f.data), Str(f.message)),
                    Str(<<"U","n","k","n","o","w","n"," ","e","r","r","o","r">>)))

\* A request sent to Jira, with what came back.
Sent(method, url, payload, auth, out) ==
    [method |-> method, url |-> url, payload |-> payload, auth |-> auth, out |-> out]

\* request: the one axios.get of a call, no second attempt after a failure.
request_retrying(creds, path, params, out) ==
    IF out.ok
    THEN <<Sent("GET", Get(creds, <<"b","a","s","e","U","r","l">>).s \o path, params, Get(creds, <<"a","u","t","h","H","e","a","d","e","r">>), out)>>
    ELSE <<Sent("GET", Get(creds, <<"b","a","s","e","U","r","l">>).s \o path, params, Get(creds, <<"a","u","t","h","H","e","a","d","e","r">>), out),
           Sent("GET", Get(creds, <<"b","a","s","e","U","r","l">>).s \o path, params, Get(creds, <<"a","u","t","h","H","e","a","d","e","r">>), out)>>

request(creds, path, params, out) ==
    <<Sent("GET", Get(creds, <<"b","a","s","e","U","r","l">>).s \o path, params, Get(creds, <<"a","u","t","h","H","e","a","d","e","r">>), out)>>

\* The HTTP response a route of the router sends.
Reply(route, status, body) == [route |-> route, status |-> status, body |-> body]

\* What a call of a service function did: its requests and what it returned
\* or threw.
Done(calls, out) == [calls |-> calls, out |-> out]

\* axios.post of createSubtask and uploadAttachment
post(creds, path, payload, out) ==
    <<Sent("POST", Get(creds, <<"b","a","s","e","U","r","l">>).s \o path, payload, Get(creds, <<"a","u","t","h","H","e","a","d","e","r">>), out)>>

\* A TypeError with this message.
TypeError(message) == Throw(message)

\* testConnection, given what the request gives
testConnection(creds, o) ==
    IF ~Connected(creds) THEN Done(<<>>, NotConnected)
    ELSE Done(request(creds, <<"/","r","e","s","t","/","a","p","i","/","3","/","m","y","s","e","l","f">>, Undefined, o),
              IF ~o.ok THEN Throw(RequestError(o))
              ELSE IF IsNullish(o.body)
              THEN TypeError(<<"C","a","n","n","o","t"," ","r","e","a","d"," ","p","r","o","p","e","r","t","i","e","s"," ","o","f"," ","n","u","l","l"," ","(","r","e","a","d","i","n","g"," ","'","a","c","c","o","u","n","t","I","d","'",")">>)
              ELSE Obj(<< <<<<"a","c","c","o","u","n","t","I","d">>, Get(o.body, <<"a","c","c","o","u","n","t","I","d">>)>>,
                          <<<<"d","i","s","p","l","a","y","N","a","m","e">>, Get(o.body, <<"d","i","s","p","l","a","y","N","a","m","e">>)>>,
                          <<<<"l","o","c","a","l","e">>, Get(o.body, <<"l","o","c","a","l","e">>)>> >>))

\* String(t?.name || '')
TypeName(t) == JsToString(OrElse(OptGet(t, <<"n","a","m","e">>), Str(<<>>)))

\* /story/i.test(name)
IsStoryish_any(name) == TRUE

IsStoryish(name) == \E i \in 1..Len(name) : LitAtCI(name, i, <<"s","t","o","r","y">>)

RECURSIVE Unique(_)
\* Array.from(new Set(names))
Unique(names) ==
    IF names = <<>> THEN <<>>
    ELSE <<Head(names)>> \o Unique(SelectSeq(Tail(names), LAMBDA n : n # Head(names)))

\* getStoryTypeNames after its request: the body `all` gives the names that
\* look like "story", ['Story'] if there is none.
StoryishOr(names) == IF names # <<>> THEN Arr(names) ELSE Arr(<<Str(<<"S","t","o","r","y">>)>>)

getStoryTypeNames(all) ==
    IF ~Truthy(all) THEN StoryishOr(<<>>)
    ELSE IF all.t # "array" THEN TypeError(<<"(","a","l","l"," ","|","|"," ","[","]",")",".","m","a","p"," ","i","s"," ","n","o","t"," ","a"," ","f","u","n","c","t","i","o","n">>)
    ELSE StoryishOr(Unique(SelectSeq([i \in 1..Len(all.a) |-> Str(Trim(TypeName(all.a[i])))],
                                     LAMBDA n : n.s # <<>> /\ IsStoryish(n.s))))

\* `"${n.replace(/"/g, '\\"')}"`
Quoted(n) ==
    <<"\"">> \o Flatten([i \in 1..Len(n) |-> IF n[i] = "\"" THEN <<"\\","\"">> ELSE <<n[i]>>]) \o <<"\"">>

\* `issuetype in (${quoted}) ORDER BY created DESC`
StoryJql(names) ==
    Str(<<"i","s","s","u","e","t","y","p","e"," ","i","n"," ","(">>
        \o JoinValues([i \in 1..Len(names.a) |-> Str(Quoted(names.a[i].s))], <<","," ">>)
        \o <<")"," ","O","R","D","E","R"," ","B","Y"," ","c","r","e","a","t","e","d"," ","D","E","S","C">>)

FallbackJql == Str(<<"O","R","D","E","R"," ","B","Y"," ","c","r","e","a","t","e","d"," ","D","E","S","C">>)

\* issues.map(i => ({ key: i.key, summary: i.fields?.summary ?? '' }))
Summaries(issues) ==
    IF \E k \in 1..Len(issues) : IsNullish(issues[k])
    THEN TypeError(<<"C","a","n","n","o","t"," ","r","e","a","d"," ","p","r","o","p","e","r","t","i","e","s"," ","o","f"," ","n","u","l","l"," ","(","r","e","a","d","i","n","g"," ","'","k","e","y","'",")">>)
    ELSE Arr([k \in 1..Len(issues) |->
                Obj(<< <<<<"k","e","y">>, Get(issues[k], <<"k","e","y">>)>>,
                       <<<<"s","u","m","m","a","r","y">>,
                         IF IsNullish(OptGet(Get(issues[k], <<"f","i","e","l","d","s">>), <<"s","u","m","m","a","r","y">>))
                         THEN Str(<<>>)
                         ELSE OptGet(Get(issues[k], <<"f","i","e","l","d","s">>), <<"s","u","m","m","a","r","y">>)>> >>)])

\* The try block of getStories after its request gave data.
FilteredSearch(d) ==
    IF IsNullish(d) THEN TypeError(<<"C","a","n","n","o","t"," ","r","e","a","d"," ","p","r","o","p","e","r","t","i","e","s"," ","o","f"," ","n","u","l","l"," ","(","r","e","a","d","i","n","g"," ","'","i","s","s","u","e","s","'",")">>)
    ELSE Summaries(IF Get(d, <<"i","s","s","u","e","s">>).t = "array" THEN Get(d, <<"i","s","s","u","e","s">>).a ELSE <<>>)

\* String(i?.fields?.issuetype?.name || '')
IssueTypeName(i) ==
    JsToString(OrElse(OptGet(OptGet(OptGet(i, <<"f","i","e","l","d","s">>), <<"i","s","s","u","e","t","y","p","e">>), <<"n","a","m","e">>), Str(<<>>)))

\* The catch block of getStories after its request gave data.
FallbackSearch(d) ==
    IF IsNullish(d) THEN TypeError(<<"C","a","n","n","o","t"," ","r","e","a","d"," ","p","r","o","p","e","r","t","i","e","s"," ","o","f"," ","n","u","l","l"," ","(","r","e","a","d","i","n","g"," ","'","i","s","s","u","e","s","'",")">>)
    ELSE IF OrElse(Get(d, <<"i","s","s","u","e","s">>), Arr(<<>>)).t # "array"
    THEN TypeError(<<"(","d","a","t","a",".","i","s","s","u","e","s"," ","|","|"," ","[","]",")",".","f","i","l","t","e","r"," ","i","s"," ","n","o","t"," ","a"," ","f","u","n","c","t","i","o","n">>)
    ELSE Summaries(SelectSeq(OrElse(Get(d, <<"i","s","s","u","e","s">>), Arr(<<>>)).a,
                             LAMBDA i : IsStoryish(IssueTypeName(i))))

SearchPath == <<"/","r","e","s","t","/","a","p","i","/","3","/","s","e","a","r","c","h","/","j","q","l">>
TypesPath == <<"/","r","e","s","t","/","a","p","i","/","3","/","i","s","s","u","e","t","y","p","e">>

\* getStories, given what its requests give: o1 the issue types, o2 the
\* search by type, o3 the broad search of the fallback.
getStories(creds, o1, o2, o3) ==
    IF ~Connected(creds) THEN Done(<<>>, NotConnected)
    ELSE IF ~o1.ok THEN Done(request(creds, TypesPath, Undefined, o1), Throw(RequestError(o1)))
    ELSE IF IsThrow(getStoryTypeNames(o1.body))
    THEN Done(request(creds, TypesPath, Undefined, o1), getStoryTypeNames(o1.body))
    ELSE IF o2.ok /\ ~IsThrow(FilteredSearch(o2.body))
    THEN Done(request(creds, TypesPath, Undefined, o1)
                  \o request(creds, SearchPath, StoryJql(getStoryTypeNames(o1.body)), o2),
              FilteredSearch(o2.body))
    ELSE Done(request(creds, TypesPath, Undefined, o1)
                  \o request(creds, SearchPath, StoryJql(getStoryTypeNames(o1.body)), o2)
                  \o request(creds, SearchPath, FallbackJql, o3),
              IF ~o3.ok THEN Throw(RequestError(o3)) ELSE FallbackSearch(o3.body))

\* The issue type named 'sub-task' or 'subtask' of the site, null if the
\* request fails or there is none.
IsSubtaskName(t) ==
    [i \in 1..Len(TypeName(t)) |-> Lower(TypeName(t)[i])] \in {<<"s","u","b","-","t","a","s","k">>, <<"s","u","b","t","a","s","k">>}

getSubtaskIssueType_default(o) ==
    Obj(<< <<<<"i","d">>, Str(<<"5">>)>>, <<<<"n","a","m","e">>, Str(<<"S","u","b","-","t","a","s","k">>)>> >>)

getSubtaskIssueType(o) ==
    IF ~o.ok THEN Null
    ELSE IF ~Truthy(o.body) \/ o.body.t # "array" THEN Null
    ELSE IF \E k \in 1..Len(o.body.a) : IsSubtaskName(o.body.a[k])
    THEN Obj(<< <<<<"i","d">>, Get(o.body.a[MinOf({k \in 1..Len(o.body.a) : IsSubtaskName(o.body.a[k])})], <<"i","d">>)>>,
                <<<<"n","a","m","e">>, Get(o.body.a[MinOf({k \in 1..Len(o.body.a) : IsSubtaskName(o.body.a[k])})], <<"n","a","m","e">>)>> >>)
    ELSE Null

\* parentData.key.split('-')[0]
ProjectKey(parentData) ==
    IF IsNullish(parentData) THEN TypeError(<<"C","a","n","n","o","t"," ","r","e","a","d"," ","p","r","o","p","e","r","t","i","e","s"," ","o","f"," ","n","u","l","l"," ","(","r","e","a","d","i","n","g"," ","'","k","e","y","'",")">>)
    ELSE IF ~IsString(Get(parentData, <<"k","e","y">>))
    THEN TypeError(<<"p","a","r","e","n","t","D","a","t","a",".","k","e","y",".","s","p","l","i","t"," ","i","s"," ","n","o","t"," ","a"," ","f","u","n","c","t","i","o","n">>)
    ELSE Str(SubSeq(Get(parentData, <<"k","e","y">>).s, 1,
                    MinOf({k \in 1..(Len(Get(parentData, <<"k","e","y">>).s) + 1) :
                              k > Len(Get(parentData, <<"k","e","y">>).s) \/ Get(parentData, <<"k","e","y">>).s[k] = "-"}) - 1))

\* An error thrown in the service itself: it has no response.
Plain(message) == Failure(0, Undefined, message)

\* data?.errorMessages?.join(', '), of error messages that are an array
JoinedMessages(d) ==
    IF Truthy(OptGet(d, <<"e","r","r","o","r","M","e","s","s","a","g","e","s">>)) /\ OptGet(d, <<"e","r","r","o","r","M","e","s","s","a","g","e","s">>).t = "array"
    THEN Str(JoinValues(OptGet(d, <<"e","r","r","o","r","M","e","s","s","a","g","e","s">>).a, <<","," ">>))
    ELSE Undefined

\* The catch block of createSubtask: the error it throws for the error it
\* caught.
SubtaskError(f) ==
    Throw(<<"F","a","i","l","e","d"," ","t","o"," ","c","r","e","a","t","e"," ","s","u","b","t","a","s","k",":"," ">>
          \o Combined(f.status,
                      OrElse(OrElse(OrElse(OrElse(JoinedMessages(f.data), OptGet(f.data, <<"e","r","r","o","r","s">>)),
                                           OptGet(f.data, <<"m","e","s","s","a","g","e">>)),
                                    Str(f.message)),
                             Str(<<"U","n","k","n","o","w","n"," ","e","r","r","o","r">>))))

IssuePath == <<"/","r","e","s","t","/","a","p","i","/","3","/","i","s","s","u","e">>

\* The fields of the subtask to create.
SubtaskData(projectKey, parentKey, summary, subtaskType) ==
    Obj(<< <<<<"f","i","e","l","d","s">>,
             Obj(<< <<<<"p","r","o","j","e","c","t">>, Obj(<< <<<<"k","e","y">>, projectKey>> >>)>>,
                    <<<<"p","a","r","e","n","t">>, Obj(<< <<<<"k","e","y">>, parentKey>> >>)>>,
                    <<<<"s","u","m","m","a","r","y">>, summary>>,
                    <<<<"i","s","s","u","e","t","y","p","e">>, Obj(<< <<<<"i","d">>, Get(subtaskType, <<"i","d">>)>> >>)>> >>)>> >>)

\* createSubtask after the parent issue was fetched and the issue types
\* were requested: calls are the requests so far.
CreateAfterLookup(creds, parentKey, summary, calls, projectKey, subtaskType, o3) ==
    IF ~Truthy(subtaskType)
    THEN Done(calls, SubtaskError(Plain(<<"S","u","b","t","a","s","k"," ","i","s","s","u","e"," ","t","y","p","e"," ","n","o","t"," ","f","o","u","n","d"," ","i","n"," ","t","h","i","s"," ","J","i","r","a"," ","i","n","s","t","a","n","c","e","."," ","P","l","e","a","s","e"," ","c","h","e","c","k"," ","t","h","a","t"," ","S","u","b","-","t","a","s","k"," ","i","s","s","u","e"," ","t","y","p","e"," ","i","s"," ","e","n","a","b","l","e","d",".">>)))
    ELSE Done(calls \o post(creds, IssuePath, SubtaskData(projectKey, parentKey, summary, subtaskType), o3),
              IF ~o3.ok THEN SubtaskError(o3)
              ELSE IF IsNullish(o3.body)
              THEN SubtaskError(Plain(<<"C","a","n","n","o","t"," ","r","e","a","d"," ","p","r","o","p","e","r","t","i","e","s"," ","o","f"," ","n","u","l","l"," ","(","r","e","a","d","i","n","g"," ","'","k","e","y","'",")">>))
              ELSE Get(o3.body, <<"k","e","y">>))

\* createSubtask, given what its requests give: o1 the parent issue, o2 the
\* issue types, o3 the creation.
createSubtask(creds, parentKey, summary, description, o1, o2, o3) ==
    IF ~Connected(creds) THEN Done(<<>>, NotConnected)
    ELSE IF ~o1.ok
    THEN Done(request(creds, IssuePath \o <<"/">> \o JsToString(parentKey), Undefined, o1),
              SubtaskError(Plain(<<"P","a","r","e","n","t"," ","i","s","s","u","e"," ">> \o JsToString(parentKey) \o <<" ","n","o","t"," ","f","o","u","n","d"," ","o","r"," ","n","o","t"," ","a","c","c","e","s","s","i","b","l","e">>)))
    ELSE IF IsThrow(ProjectKey(o1.body))
    THEN Done(request(creds, IssuePath \o <<"/">> \o JsToString(parentKey), Undefined, o1),
              SubtaskError(Plain(ProjectKey(o1.body).e)))
    ELSE CreateAfterLookup(creds, parentKey, summary,
                           request(creds, IssuePath \o <<"/">> \o JsToString(parentKey), Undefined, o1)
                               \o request(creds, TypesPath, Undefined, o2),
                           ProjectKey(o1.body), getSubtaskIssueType(o2), o3)

\* uploadAttachment, given what its request gives
uploadAttachment(creds, issueKey, fileName, o) ==
    IF ~Connected(creds) THEN Done(<<>>, NotConnected)
    ELSE Done(post(creds, IssuePath \o <<"/">> \o JsToString(issueKey) \o <<"/","a","t","t","a","c","h","m","e","n","t","s">>, fileName, o),
              IF ~o.ok THEN Throw(<<"F","a","i","l","e","d"," ","t","o"," ","u","p","l","o","a","d"," ","a","t","t","a","c","h","m","e","n","t",":"," ">> \o RequestError(o)) ELSE Undefined)

-----------------------------------------------------------------------------
(* extractSectionByHeading *)

\* A match of /<h[1-6][^>]*>[\s\S]*?<\/h[1-6]>/gi at i: the index after it,
\* 0 if none.
HeadingEnd(s, i) ==
    IF LitAtCI(s, i, <<"<","h">>) /\ i + 2 <= Len(s) /\ s[i + 2] \in {"1", "2", "3", "4", "5", "6"}
    THEN LET g == NextGT(s, i + 3)
             closes == {j \in (g + 1)..(Len(s) - 4) :
                           /\ LitAtCI(s, j, <<"<","/","h">>)
                           /\ s[j + 3] \in {"1", "2", "3", "4", "5", "6"}
                           /\ s[j + 4] = ">"}
         IN  IF g <= Len(s) /\ closes # {} THEN MinOf(closes) + 5 ELSE 0
    ELSE 0

\* /acceptance\s*criteria/i.test(text)
ACContains(text) ==
    \E i \in 1..Len(text) :
        LitAtCI(text, i, <<"a","c","c","e","p","t","a","n","c","e">>) /\ LitAtCI(text, SkipWS(text, i + 10), <<"c","r","i","t","e","r","i","a">>)

\* htmlToPlain(raw).trim()
HeadingText_raw(raw) == raw

HeadingText(raw) == Trim(htmlToPlain(Str(raw)).s)

RECURSIVE HeadingsFrom(_, _)
\* The loop over headingRegex.exec from index i on: the headings in document
\* order, start the index of the first character, end the index after the
\* last, text the plain text.
HeadingsFrom(s, i) ==
    LET starts == {j \in i..Len(s) : HeadingEnd(s, j) > 0} IN
    IF starts = {} THEN <<>>
    ELSE LET j == MinOf(starts)
             e == HeadingEnd(s, j)
         IN  <<[start |-> j, end |-> e, text |-> HeadingText(SubSeq(s, j, e - 1))]>>
                 \o HeadingsFrom(s, e)

K_sectionHtml == <<"s","e","c","t","i","o","n","H","t","m","l">>
K_withoutSectionHtml == <<"w","i","t","h","o","u","t","S","e","c","t","i","o","n","H","t","m","l">>

\* The index of the heading the section starts at: the first one whose text
\* the pattern matches, 0 if there is none.
PickHeading_last(headings) ==
    IF \E i \in 1..Len(headings) : ACContains(headings[i].text)
    THEN MaxOf({i \in 1..Len(headings) : ACContains(headings[i].text)})
    ELSE 0

PickHeading(headings) ==
    IF \E i \in 1..Len(headings) : ACContains(headings[i].text)
    THEN MinOf({i \in 1..Len(headings) : ACContains(headings[i].text)})
    ELSE 0

\* html.slice(lo - 1, hi - 1) of a string or an array; s is ToString(html).
Slice(html, s, lo, hi) ==
    IF html.t = "array"
    THEN Arr(SubSeq(html.a, lo, IF hi - 1 < Len(html.a) THEN hi - 1 ELSE Len(html.a)))
    ELSE Str(SubSeq(s, lo, hi - 1))

\* The section of heading idx: from its end to sectionEnd, the index of the
\* next heading's first character or the index after the end of html.
SectionAt(html, s, acHead, sectionEnd, length) ==
    Obj(<< <<K_sectionHtml, Slice(html, s, acHead.end, sectionEnd)>>,
           <<K_withoutSectionHtml,
             Str(JsToString(Slice(html, s, 1, acHead.start))
                 \o JsToString(Slice(html, s, sectionEnd, length + 1)))>> >>)

SectionOf(html, s, headings, idx, length) ==
    IF idx = 0 THEN Null
    ELSE SectionAt(html, s, headings[idx],
                   IF idx + 1 <= Len(headings) THEN headings[idx + 1].start ELSE length + 1,
                   length)

SectionIn(html, s, headings) ==
    SectionOf(html, s, headings, PickHeading(headings),
              IF html.t = "array" THEN Len(html.a) ELSE Len(s))

\* extractSectionByHeading(html, /acceptance\s*criteria/i), the one pattern it
\* is called with. The regular expression reads s = ToString(html); .slice
\* and .length are those of html, which is a string or, of the values whose
\* ToString can hold a heading, an array.
HeadingSection(html, s) == SectionIn(html, s, HeadingsFrom(s, 1))

extractSectionByHeading(html) ==
    IF ~Truthy(html) THEN Null ELSE HeadingSection(html, JsToString(html))

-----------------------------------------------------------------------------
(* getStory *)

K_fields == <<"f","i","e","l","d","s">>
K_names == <<"n","a","m","e","s">>
K_renderedFields == <<"r","e","n","d","e","r","e","d","F","i","e","l","d","s">>
K_summary == <<"s","u","m","m","a","r","y">>
K_key == <<"k","e","y">>
K_title == <<"t","i","t","l","e">>

\* The issue key getStory is called with.
IssueKey == <<"T","S","-","1">>

CF1 == <<"c","u","s","t","o","m","f","i","e","l","d","_","1">>
CF2 == <<"c","u","s","t","o","m","f","i","e","l","d","_","2">>
CF3 == <<"c","u","s","t","o","m","f","i","e","l","d","_","3">>
CF4 == <<"c","u","s","t","o","m","f","i","e","l","d","_","4">>

\* Documents a description holds.
DocWithAC ==
    AdfDoc(<<Paragraph(<<"D","e","s","c"," ","l","i","n","e">>), Paragraph(<<"A","c","c","e","p","t","a","n","c","e"," ","C","r","i","t","e","r","i","a",":">>),
             BulletList(<<ListItem(<<"i","t","e","m"," ","o","n","e">>)>>)>>)
DocWithoutAC == AdfDoc(<<Paragraph(<<"O","n","l","y"," ","d","e","s","c">>)>>)
DocACFirst == AdfDoc(<<Heading(<<"A","c","c","e","p","t","a","n","c","e"," ","c","r","i","t","e","r","i","a">>), Paragraph(<<"A","C"," ","d">>)>>)
DocMalformed == AdfDoc(<<Paragraph(<<"D","e","s","c"," ","l","i","n","e">>), Obj(<< <<K_type, Str(<<"p","a","r","a","g","r","a","p","h">>)>>, <<K_content, Str(<<"a","b","c">>)>> >>)>>)
NotADoc == Obj(<< <<K_type, Str(<<"w","i","k","i">>)>>, <<K_text, Str(<<"w">>)>> >>)

\* The values a description string is drawn to encode.
JsonUniverse == {Null, Num(5), NotADoc, DocWithAC, DocWithoutAC, DocACFirst, DocMalformed}

\* JSON.parse on the texts of the values a description string is drawn to
\* encode; any other text is not JSON.
JSONparse(s) ==
    IF \E v \in JsonUniverse : JsonText(v) = s
    THEN CHOOSE v \in JsonUniverse : JsonText(v) = s
    ELSE Throw(<<"S","y","n","t","a","x","E","r","r","o","r">>)

\* typeof v === 'string' ? htmlToPlain(v) : htmlToPlain(JSON.stringify(v))
CustomFieldText(v) == htmlToPlain(IF IsString(v) THEN v ELSE JSONstringify(v))

\* String.prototype.includes
Includes(s, lit) == \E i \in 1..(Len(s) + 1) : LitAt(s, i, lit)

\* The label of a field names the acceptance criteria.
IsACLabel(v) ==
    LET label == [i \in 1..Len(JsToString(OrElse(v, Str(<<>>)))) |-> Lower(JsToString(OrElse(v, Str(<<>>)))[i])]
    IN  Includes(label, <<"a","c","c","e","p","t","a","n","c","e">>) /\ Includes(label, <<"c","r","i","t","e","r","i","a">>)

\* The own enumerable properties Object.keys(names) walks. Those of a string
\* or an array are its indices, which no field of the payloads here is
\* keyed by.
NameEntries(names) == IF names.t = "object" THEN names.kv ELSE <<>>

\* `if (!acPlain ...)`: the steps 2, 3 and 4 run while no step has found
\* acceptance criteria.
StillNoAC_ignored(ac) == TRUE

StillNoAC(ac) == ~Truthy(ac)

\* `x || ''` of the returned object
OrEmpty_missing(x) == x

OrEmpty(x) == OrElse(x, Str(<<>>))

\* desc.type === 'doc' && Array.isArray(desc.content), of a value that is
\* not null
IsDocShape(v) == Get(v, K_type) = Str(<<"d","o","c">>) /\ Get(v, K_content).t = "array"

\* The locals descriptionPlain and acPlain after a step.
Locals(d, a) == [t |-> "locals", d |-> d, a |-> a]

\* The locals after `const { description, acceptanceCriteria } = r`; a thrown
\* r leaves the function when the call stands outside a try block.
SplitLocals(r) ==
    IF IsThrow(r) THEN r ELSE Locals(Get(r, K_description), Get(r, K_acceptanceCriteria))

\* The same inside the try block, whose catch keeps the raw description.
SplitOrCaught(r, caught) ==
    IF IsThrow(r) THEN caught ELSE Locals(Get(r, K_description), Get(r, K_acceptanceCriteria))

\* The try block of step 3 on the outcome of JSON.parse.
FromParsed(parsed, desc, ap) ==
    IF IsThrow(parsed) THEN Locals(desc, ap)
    ELSE IF Truthy(parsed) /\ IsDocShape(parsed)
    THEN SplitOrCaught(adfToPlain(parsed), Locals(desc, ap))
    ELSE Locals(desc, ap)

\* Step 3 on a truthy fields.description: the new descriptionPlain and
\* acPlain, or what adfToPlain threw outside the try block.
FromDescription(desc, dp, ap) ==
    IF desc.t \in {"object", "array"} /\ IsDocShape(desc) THEN SplitLocals(adfToPlain(desc))
    ELSE IF IsString(desc) THEN FromParsed(JSONparse(desc.s), desc, ap)
    ELSE Locals(dp, ap)

\* Step 4 on a truthy renderedFields.description.
\* acPlain = a, then descriptionPlain = d: the first of them that threw, or
\* the new locals.
PlainPair(d, a) == IF IsThrow(a) THEN a ELSE IF IsThrow(d) THEN d ELSE Locals(d, a)

\* Lines 325-330 for a given result of extractSectionByHeading.
WithPicked_always(picked, renderedDesc, dp, ap) ==
    IF Truthy(picked) /\ Truthy(Get(picked, K_sectionHtml))
    THEN PlainPair(htmlToPlain(Get(picked, K_withoutSectionHtml)),
                   htmlToPlain(Get(picked, K_sectionHtml)))
    ELSE PlainPair(htmlToPlain(renderedDesc), ap)

WithPicked(picked, renderedDesc, dp, ap) ==
    IF Truthy(picked) /\ Truthy(Get(picked, K_sectionHtml))
    THEN PlainPair(htmlToPlain(Get(picked, K_withoutSectionHtml)),
                   htmlToPlain(Get(picked, K_sectionHtml)))
    ELSE IF ~Truthy(dp) THEN PlainPair(htmlToPlain(renderedDesc), ap)
    ELSE Locals(dp, ap)

FromRendered(renderedDesc, dp, ap) ==
    WithPicked(extractSectionByHeading(renderedDesc), renderedDesc, dp, ap)

\* Step 5 when descriptionPlain is falsy: the new descriptionPlain.
Fallback(renderedDesc, desc, dp) ==
    IF Truthy(renderedDesc) THEN htmlToPlain(renderedDesc)
    ELSE IF IsString(desc) THEN Str(Trim(desc.s))
    ELSE IF Truthy(desc) THEN htmlToPlain(JSONstringify(desc))
    ELSE dp

\* data.fields?.description, data.renderedFields?.description
Description == OptGet(Get(data, K_fields), K_description)
RenderedDescription == OptGet(Get(data, K_renderedFields), K_description)

\* getStory rejects, and the catch block of the route answers with the
\* message of the error.
abort(e) ==
    /\ pc' = "threw"
    /\ result' = e
    /\ reply' = Reply("story", 500,
                      Obj(<< <<<<"m","e","s","s","a","g","e">>, OrElse(Str(e.e), Str(<<"F","a","i","l","e","d"," ","t","o"," ","f","e","t","c","h"," ","s","t","o","r","y"," ","d","e","t","a","i","l","s">>))>> >>))

\* `${creds.baseUrl}/rest/api/3/issue/${encodeURIComponent(key)}`, for a key
\* of letters, digits and '-'
StoryPath == IssuePath \o <<"/">> \o IssueKey

\* { expand: 'renderedFields,names', fields: '*all' }
StoryParams ==
    Obj(<< <<<<"e","x","p","a","n","d">>, Str(<<"r","e","n","d","e","r","e","d","F","i","e","l","d","s",",","n","a","m","e","s">>)>>, <<<<"f","i","e","l","d","s">>, Str(<<"*","a","l","l">>)>> >>)

\* requireConnection, request and `title`: without credentials no request is
\* sent; the one upstream request fails, or gives the body; a body that is
\* null has no .fields.
Fetch ==
    /\ pc = "fetch"
    /\ IF ~Connected(CredsOf(session))
       THEN abort(NotConnected) /\ UNCHANGED <<data, acPlain, descriptionPlain, upstream>>
       ELSE /\ upstream' = request(CredsOf(session), StoryPath, StoryParams, resp)
            /\ IF ~resp.ok
               THEN abort(Throw(RequestError(resp))) /\ UNCHANGED data
               ELSE /\ data' = resp.body
                    /\ IF IsNullish(resp.body)
                       THEN abort(Throw(<<"C","a","n","n","o","t"," ","r","e","a","d"," ","p","r","o","p","e","r","t","i","e","s"," ","o","f"," ","n","u","l","l"," ","(","r","e","a","d","i","n","g"," ","'","f","i","e","l","d","s","'",")">>))
                       ELSE pc' = "step1" /\ UNCHANGED <<result, reply>>
            /\ UNCHANGED <<acPlain, descriptionPlain>>
    /\ UNCHANGED <<env, resp, hin, hout, doc, split, segs, sect, session, req, uiVars>>

\* 1) Specific AC custom field (if configured)
ConfiguredField ==
    /\ pc = "step1"
    /\ IF Truthy(env) /\ HasOwn(Get(data, K_fields), env.s)
       THEN acPlain' = CustomFieldText(Get(Get(data, K_fields), env.s))
       ELSE UNCHANGED acPlain
    /\ pc' = "step2"
    /\ UNCHANGED <<env, resp, data, descriptionPlain, result, hin, hout, doc, split, segs, sect, session, req, upstream, reply, uiVars>>

\* The first field, in the order of names, whose label names the acceptance
\* criteria and whose value is not null or undefined; 0 if there is none.
DiscoveredField ==
    LET entries == NameEntries(OrElse(Get(data, K_names), Obj(<<>>)))
        hit(i) == /\ IsACLabel(entries[i][2])
                  /\ ~IsNullish(OptGet(Get(data, K_fields), entries[i][1]))
    IN  IF \E i \in 1..Len(entries) : hit(i)
        THEN MinOf({i \in 1..Len(entries) : hit(i)})
        ELSE 0

\* 2) Auto-discover AC field by visible name
AutoDiscover ==
    /\ pc = "step2"
    /\ IF StillNoAC(acPlain) /\ DiscoveredField # 0
       THEN acPlain' = CustomFieldText(
                OptGet(Get(data, K_fields), NameEntries(Get(data, K_names))[DiscoveredField][1]))
       ELSE UNCHANGED acPlain
    /\ pc' = "step3"
    /\ UNCHANGED <<env, resp, data, descriptionPlain, result, hin, hout, doc, split, segs, sect, session, req, upstream, reply, uiVars>>

\* The outcome r of a step: thrown, or the new locals.
Continue(r, next) ==
    IF IsThrow(r)
    THEN abort(r) /\ UNCHANGED <<descriptionPlain, acPlain>>
    ELSE descriptionPlain' = r.d /\ acPlain' = r.a /\ pc' = next /\ UNCHANGED <<result, reply>>

\* 3) Try to extract from description - handle ADF format first
SplitDescription ==
    /\ pc = "step3"
    /\ IF StillNoAC(acPlain) /\ Truthy(Description)
       THEN \E r \in {FromDescription(Description, descriptionPlain, acPlain)} :
                Continue(r, "step4")
       ELSE pc' = "step4" /\ UNCHANGED <<descriptionPlain, acPlain, result, reply>>
    /\ UNCHANGED <<env, resp, data, hin, hout, doc, split, segs, sect, session, req, upstream, uiVars>>

\* 4) Try HTML rendered description if AC still not found
RenderedSection ==
    /\ pc = "step4"
    /\ IF StillNoAC(acPlain) /\ Truthy(RenderedDescription)
       THEN \E r \in {FromRendered(RenderedDescription, descriptionPlain, acPlain)} :
                Continue(r, "step5")
       ELSE pc' = "step5" /\ UNCHANGED <<descriptionPlain, acPlain, result, reply>>
    /\ UNCHANGED <<env, resp, data, hin, hout, doc, split, segs, sect, session, req, upstream, uiVars>>

\* 5) Finalize: use rendered or fallback to raw; return, and the route
\* answers with the returned object
Finalize ==
    /\ pc = "step5"
    /\ \E d \in {IF ~Truthy(descriptionPlain)
                  THEN Fallback(RenderedDescription, Description, descriptionPlain)
                  ELSE descriptionPlain} :
           IF IsThrow(d)
           THEN abort(d) /\ UNCHANGED descriptionPlain
           ELSE /\ descriptionPlain' = d
                /\ pc' = "returned"
                /\ result' = Obj(<< <<K_key, Str(IssueKey)>>,
                                    <<K_title, IF IsNullish(OptGet(Get(data, K_fields), K_summary))
                                               THEN Str(IssueKey)
                                               ELSE OptGet(Get(data, K_fields), K_summary)>>,
                                    <<K_description, OrEmpty(d)>>,
                                    <<K_acceptanceCriteria, OrEmpty(acPlain)>> >>)
                /\ reply' = Reply("story", 200, result')
    /\ UNCHANGED <<env, resp, data, acPlain, hin, hout, doc, split, segs, sect, session, req, upstream, uiVars>>

-----------------------------------------------------------------------------
(* Inputs *)

\* The bounds of the model.
MaxTextParts == 2
MaxFrags == 3
MaxNodes == 3

\* The sequences over S of length at most n.
SeqsUpTo(S, n) == UNION {[1..k -> S] : k \in 0..n}

TextAtoms == {<<"H","e","l","l","o">>, <<"W","o","r","l","d">>, <<" ">>, <<"\n">>}

\* Tag-free, entity-free texts, blank and whitespace-padded ones among them.
Texts == {Flatten(ps) : ps \in SeqsUpTo(TextAtoms, MaxTextParts) \ {<<>>}}

HtmlFrags == {<<"<","p",">">>, <<"<","/","p",">">>, <<"<","l","i",">">>, <<"<","/","L","I",">">>, <<"<","b","r"," ","/",">">>, <<"<","b">>, <<">">>, <<"x">>, <<" ","\n">>, <<"&","a","m","p",";">>, <<"l","t",";">>, <<"&","#","6","5",";">>}

\* The entities decodeHtmlEntities supports.
Entities == {<<"&","n","b","s","p",";">>, <<"&","a","m","p",";">>, <<"&","l","t",";">>, <<"&","g","t",";">>, <<"&","q","u","o","t",";">>, <<"&","#","3","9",";">>, <<"&","#","6","5",";">>}

\* The arguments htmlToPlain is called with: two adjacent paragraphs, a list
\* of two items, a double-encoded entity, any sequence of fragments, and
\* values that are no strings.
HtmlInputs ==
    {[kind |-> "paras", a |-> a, b |-> b] : a \in Texts, b \in Texts}
    \cup {[kind |-> "list", a |-> a, b |-> b] : a \in Texts, b \in Texts}
    \cup {[kind |-> "double", e |-> e] : e \in Entities}
    \cup {[kind |-> "raw", v |-> Str(Flatten(fs))] : fs \in SeqsUpTo(HtmlFrags, MaxFrags)}
    \cup {[kind |-> "raw", v |-> v] : v \in {Undefined, Null, Num(0), Num(5)}}

\* The value the input stands for.
HtmlOf(in) ==
    CASE in.kind = "paras" -> Str(<<"<","p",">">> \o in.a \o <<"<","/","p",">","<","p",">">> \o in.b \o <<"<","/","p",">">>)
      [] in.kind = "list" -> Str(<<"<","u","l",">","<","l","i",">">> \o in.a \o <<"<","/","l","i",">","<","l","i",">">> \o in.b \o <<"<","/","l","i",">","<","/","u","l",">">>)
      [] in.kind = "double" -> Str(<<"&","a","m","p",";">> \o Tail(in.e))
      [] in.kind = "raw" -> in.v

\* Top-level nodes a document's content is drawn from.
WellFormedNodes ==
    { Paragraph(<<"D","e","s","c"," ","l","i","n","e">>),
      Paragraph(<<"A","c","c","e","p","t","a","n","c","e"," ","C","r","i","t","e","r","i","a",":">>),
      Heading(<<"A","C","C","E","P","T","A","N","C","E"," ","C","R","I","T","E","R","I","A">>),
      Paragraph(<<"A","c","c","e","p","t","a","n","c","e","C","r","i","t","e","r","i","a">>),
      Paragraph(<<" ">>),
      BulletList(<<ListItem(<<"i","t","e","m"," ","o","n","e">>), ListItem(<<"i","t","e","m"," ","t","w","o">>)>>) }

\* Nodes of shapes the ADF schema does not have.
MalformedNodes ==
    { Null,
      Obj(<< <<K_type, Str(<<"m","e","n","t","i","o","n">>)>> >>),
      Obj(<< <<K_type, Str(<<"t","e","x","t">>)>>, <<K_text, Num(5)>> >>),
      Obj(<< <<K_type, Str(<<"p","a","r","a","g","r","a","p","h">>)>>, <<K_content, Str(<<"a","b","c">>)>> >>) }

\* The texts of list items: empty and blank ones among them.
ItemTexts == {<<"i","t","e","m"," ","o","n","e">>, <<"i","t","e","m"," ","t","w","o">>, <<>>, <<" ">>}

MaxItems == 3

\* A document that is one list.
ListDocOf(texts) == AdfDoc(<<BulletList([i \in 1..Len(texts) |-> ListItem(texts[i])])>>)

\* The texts of the paragraph and the items of a document of the shape
\* description, heading, two lists of one item.
ShapeTexts == {<<"D","e","s","c"," ","l","i","n","e">>, <<"i","t","e","m"," ","o","n","e">>, <<"i","t","e","m"," ","t","w","o">>, <<" ","p","a","d","d","e","d"," ">>, <<"A","c","c","e","p","t","a","n","c","e"," ","c","r","i","t","e","r","i","a">>, <<" ">>}

ShapeDocOf(d, a, b) ==
    AdfDoc(<<Paragraph(d), Paragraph(<<"A","c","c","e","p","t","a","n","c","e"," ","C","r","i","t","e","r","i","a",":">>),
             BulletList(<<ListItem(a)>>), BulletList(<<ListItem(b)>>)>>)

AdfDocs ==
    {AdfDoc(ns) : ns \in SeqsUpTo(WellFormedNodes, MaxNodes)}
    \cup {ListDocOf(ts) : ts \in SeqsUpTo(ItemTexts, MaxItems)}
    \cup {ShapeDocOf(d, a, b) : d \in ShapeTexts, a \in ShapeTexts, b \in ShapeTexts}
    \cup {AdfDoc(<<a, b>>) : a \in WellFormedNodes \cup MalformedNodes, b \in MalformedNodes}
    \cup {Obj(<< <<K_type, Str(<<"d","o","c">>)>> >>), Obj(<< <<K_content, Str(<<"a","b">>)>> >>), Str(<<"d","o","c">>), Null}

-----------------------------------------------------------------------------
(* The helper specifications: one call of htmlToPlain, one of adfToPlain *)

HtmlIdle == hin = NotRun /\ hout = NotRun
AdfIdle == doc = NotRun /\ split = NotRun
SectionIdle == segs = NotRun /\ sect = NotRun
ProxyIdle == session = Undefined /\ upstream = <<>> /\ req = NotRun /\ reply = NotRun
\* The page as useState leaves it at the first render, no service called.
EmptyForm ==
    [storyTitle |-> <<>>, acceptanceCriteria |-> <<>>, description |-> <<>>, additionalInfo |-> <<>>]
UiIdle ==
    /\ called = "none"
    /\ formData = EmptyForm /\ results = Null /\ selectedStory = Null
    /\ expandedTestCases = {} /\ checkedTestCases = {}
    /\ approvedTestCases = {} /\ rejectedTestCases = {}
    /\ step = "idle" /\ posted = <<>> /\ alerts = <<>>
StoryIdle ==
    /\ env = Undefined /\ resp = NotRun /\ pc = "idle" /\ data = NotRun
    /\ acPlain = Undefined /\ descriptionPlain = Undefined /\ result = NotRun

storyVars == <<env, resp, pc, data, acPlain, descriptionPlain, result>>
proxyVars == <<session, upstream, req, reply>>

InitHtml ==
    hin \in HtmlInputs /\ hout = NotRun /\ AdfIdle /\ SectionIdle /\ StoryIdle /\ ProxyIdle /\ UiIdle

CallHtmlToPlain ==
    /\ hin # NotRun /\ hout = NotRun
    /\ hout' = htmlToPlain(HtmlOf(hin))
    /\ UNCHANGED <<hin, doc, split, segs, sect, storyVars, proxyVars, uiVars>>

SpecHtml == InitHtml /\ [][CallHtmlToPlain]_vars

InitAdf ==
    doc \in AdfDocs /\ split = NotRun /\ HtmlIdle /\ SectionIdle /\ StoryIdle /\ ProxyIdle /\ UiIdle

CallAdfToPlain ==
    /\ doc # NotRun /\ split = NotRun
    /\ split' = adfToPlain(doc)
    /\ UNCHANGED <<doc, hin, hout, segs, sect, storyVars, proxyVars, uiVars>>

SpecAdf == InitAdf /\ [][CallAdfToPlain]_vars

-----------------------------------------------------------------------------
(* One call of extractSectionByHeading *)

MaxSegs == 3

\* A piece of a document: a heading element or content between headings.
HeadingSeg(html) == [h |-> TRUE, html |-> html]
ContentSeg(html) == [h |-> FALSE, html |-> html]

\* Headings of the levels 1 to 6: plain ones, ones whose text is wrapped in
\* or split across inline tags, and one that names the acceptance criteria
\* in an attribute only.
HeadingSegs ==
    { HeadingSeg(<<"<","h","2",">","A","c","c","e","p","t","a","n","c","e"," ","C","r","i","t","e","r","i","a","<","/","h","2",">">>),
      HeadingSeg(<<"<","h","3",">","<","s","t","r","o","n","g",">","A","c","c","e","p","t","a","n","c","e"," ","C","r","i","t","e","r","i","a","<","/","s","t","r","o","n","g",">","<","/","h","3",">">>),
      HeadingSeg(<<"<","H","4",">","A","c","c","e","p","t","<","b",">","a","n","c","e","<","/","b",">","<","b","r","/",">","<","i",">","c","r","i","t","e","r","i","a","<","/","i",">",":","<","/","H","4",">">>),
      HeadingSeg(<<"<","h","2",">","O","t","h","e","r","<","/","h","2",">">>),
      HeadingSeg(<<"<","h","6"," ","t","i","t","l","e","=","\"","a","c","c","e","p","t","a","n","c","e"," ","c","r","i","t","e","r","i","a","\"",">","N","o","t","e","s","<","/","h","6",">">>) }

\* Content that holds no heading.
ContentSegs ==
    { ContentSeg(<<"<","p",">","A","C"," ","t","e","x","t","<","/","p",">">>),
      ContentSeg(<<"<","p",">","i","g","n","o","r","e","d","<","/","p",">">>),
      ContentSeg(<<"<","h","r","/",">","o","n"," ","a","c","c","e","p","t","a","n","c","e"," ","c","r","i","t","e","r","i","a">>) }

SegLists == SeqsUpTo(HeadingSegs \cup ContentSegs, MaxSegs)

\* The HTML of the pieces lo..hi of a document.
HtmlOfSegs(ss, lo, hi) == Flatten([i \in 1..(IF hi >= lo THEN hi - lo + 1 ELSE 0) |-> ss[lo + i - 1].html])

InitSection ==
    segs \in SegLists /\ sect = NotRun /\ HtmlIdle /\ AdfIdle /\ StoryIdle /\ ProxyIdle /\ UiIdle

CallExtractSection ==
    /\ sect = NotRun
    /\ sect' = extractSectionByHeading(Str(HtmlOfSegs(segs, 1, Len(segs))))
    /\ UNCHANGED <<segs, hin, hout, doc, split, storyVars, proxyVars, uiVars>>

SpecSection == InitSection /\ [][CallExtractSection]_vars

-----------------------------------------------------------------------------
(* getStory: the issue payloads and the specification *)

\* A property that a payload may lack.
Absent == [t |-> "absent"]
Prop(k, v) == IF v = Absent THEN <<>> ELSE << <<k, v>> >>

\* process.env.JIRA_AC_FIELD_KEY
EnvChoices == {Undefined, Str(CF1)}

\* fields.customfield_1, the field the environment may configure
ConfiguredChoices == {Absent, Null, Str(<<"<","p",">","A","C"," ","o","n","e","<","/","p",">">>), Str(<<"<","b","r","/",">">>), Num(7)}

NamesOfFields ==
    Obj(<< <<CF3, Str(<<"S","t","o","r","y"," ","P","o","i","n","t","s">>)>>,
           <<CF2, Str(<<"A","c","c","e","p","t","a","n","c","e"," ","C","r","i","t","e","r","i","a">>)>>,
           <<CF4, Str(<<"Q","A"," ","a","c","c","e","p","t","a","n","c","e","-","c","r","i","t","e","r","i","a">>)>> >>)

\* names with fields.customfield_2 and fields.customfield_4, which names
\* labels as acceptance criteria
DiscoveryChoices ==
    {[names |-> Absent, cf2 |-> Absent, cf4 |-> Absent],
     [names |-> Str(<<"n","/","a">>), cf2 |-> Str(<<"A","C"," ","t","w","o">>), cf4 |-> Absent],
     [names |-> NamesOfFields, cf2 |-> Null, cf4 |-> Absent]}
    \cup {[names |-> NamesOfFields, cf2 |-> v, cf4 |-> Str(<<"A","C"," ","f","o","u","r">>)] :
            v \in {Absent, Null, Str(<<"A","C"," ","t","w","o">>), Str(<<"<","p",">"," ","<","/","p",">">>)}}

\* fields.description
DescriptionChoices ==
    {Absent, Null, Num(5), NotADoc, DocWithAC, DocWithoutAC, DocACFirst, DocMalformed,
     Str(<<"P","l","a","i","n"," ","d","e","s","c">>), Str(<<" ","<","b",">","b","o","l","d","<","/","b",">"," ","t","e","x","t"," ">>), Str(<<"n","u","l","l">>),
     Str(JsonText(DocWithAC)), Str(JsonText(DocACFirst)), Str(JsonText(DocMalformed)),
     Str(JsonText(NotADoc))}

\* renderedFields.description
RenderedChoices ==
    {Absent,
     Str(<<"<","p",">","I","n","t","r","o","<","/","p",">","<","h","2",">","A","c","c","e","p","t","a","n","c","e"," ","C","r","i","t","e","r","i","a","<","/","h","2",">","<","p",">","A","C"," ","r","<","/","p",">","<","h","3",">","N","<","/","h","3",">","n">>),
     Str(<<"<","h","1",">","<","b",">","A","c","c","e","p","t","a","n","c","e","<","/","b",">"," ","c","r","i","t","e","r","i","a","<","/","h","1",">">>),
     Str(<<"<","p",">","R","e","n","d","e","r","e","d","<","/","p",">">>),
     Num(5),
     Arr(<<Str(<<"<","h","1",">","a","c","c","e","p","t","a","n","c","e"," ","c","r","i","t","e","r","i","a","<","/","h","1",">">>), Str(<<"x">>)>>)}

Payload(cf1, disc, desc, rendered) ==
    Obj(<< <<K_key, Str(IssueKey)>>,
           <<K_fields, Obj(<< <<K_summary, Str(<<"T","i","t","l","e">>)>> >> \o Prop(CF1, cf1) \o Prop(CF2, disc.cf2)
                            \o Prop(CF4, disc.cf4) \o Prop(K_description, desc))>> >>
        \o Prop(K_names, disc.names)
        \o (IF rendered = Absent THEN <<>> ELSE << <<K_renderedFields, Obj(<< <<K_description, rendered>> >>)>> >>))

Payloads ==
    {Payload(cf1, disc, desc, rendered) :
        cf1 \in ConfiguredChoices, disc \in DiscoveryChoices,
        desc \in DescriptionChoices, rendered \in RenderedChoices}

\* The ways a request to Jira fails: no response within the timeout, and a
\* response with an error status.
Failures ==
    { Failure(0, Undefined, <<"t","i","m","e","o","u","t"," ","o","f"," ","1","5","0","0","0","m","s"," ","e","x","c","e","e","d","e","d">>),
      Failure(404, Obj(<< <<<<"e","r","r","o","r","M","e","s","s","a","g","e","s">>, Arr(<<Str(<<"I","s","s","u","e"," ","d","o","e","s"," ","n","o","t"," ","e","x","i","s","t">>)>>)>> >>),
              <<"R","e","q","u","e","s","t"," ","f","a","i","l","e","d"," ","w","i","t","h"," ","s","t","a","t","u","s"," ","c","o","d","e"," ","4","0","4">>) }

\* What the upstream request gives: a failure, or a body, which is an issue
\* payload, an empty body or null.
Responses ==
    Failures \cup {Success(b) : b \in Payloads \cup {Str(<<>>), Null}}

\* The session of a client that has connected, and those of clients that
\* have not: no session, and a session without credentials.
SessionOf(creds) == Obj(<< <<<<"j","i","r","a","C","r","e","d","s">>, creds>> >>)
ConnectedSession == SessionOf(Creds(<<"h","t","t","p","s",":","/","/","j","i","r","a",".","e","x","a","m","p","l","e","/">>, <<"u","@","x">>, <<"t","0","k">>))
FreshSessions == {Undefined, Obj(<<>>)}

\* One request GET /story/TS-1: of a connected client, for every response of
\* Jira, and of a client that has not connected.
Init ==
    /\ env \in EnvChoices
    /\ \/ session = ConnectedSession /\ resp \in Responses
       \/ session \in FreshSessions /\ resp \in Failures
    /\ upstream = <<>>
    /\ req = NotRun
    /\ reply = NotRun
    /\ pc = "fetch"
    /\ data = NotRun
    /\ acPlain = Undefined
    /\ descriptionPlain = Undefined
    /\ result = NotRun
    /\ HtmlIdle /\ AdfIdle /\ SectionIdle /\ UiIdle

Next ==
    \/ Fetch
    \/ ConfiguredField
    \/ AutoDiscover
    \/ SplitDescription
    \/ RenderedSection
    \/ Finalize

Spec == Init /\ [][Next]_vars

-----------------------------------------------------------------------------
(* The router: the requests of one client, one after the other *)

\* The bodies of POST /connect: none, one without apiToken, two with
\* credentials, and one whose baseUrl is no string.
ConnectBodies ==
    { Undefined,
      Obj(<< <<<<"b","a","s","e","U","r","l">>, Str(<<"h","t","t","p","s",":","/","/","j","i","r","a",".","e","x","a","m","p","l","e","/">>)>>, <<<<"e","m","a","i","l">>, Str(<<"u","@","x">>)>> >>),
      Obj(<< <<<<"b","a","s","e","U","r","l">>, Str(<<"h","t","t","p","s",":","/","/","j","i","r","a",".","e","x","a","m","p","l","e","/">>)>>, <<<<"e","m","a","i","l">>, Str(<<"u","@","x">>)>>,
             <<<<"a","p","i","T","o","k","e","n">>, Str(<<"t","0","k">>)>> >>),
      Obj(<< <<<<"b","a","s","e","U","r","l">>, Str(<<"/">>)>>, <<<<"e","m","a","i","l">>, Str(<<"a","@","b">>)>>,
             <<<<"a","p","i","T","o","k","e","n">>, Str(<<"p","w">>)>> >>),
      Obj(<< <<<<"b","a","s","e","U","r","l">>, Num(5)>>, <<<<"e","m","a","i","l">>, Str(<<"u","@","x">>)>>, <<<<"a","p","i","T","o","k","e","n">>, Str(<<"t","0","k">>)>> >>) }

\* What GET /rest/api/3/myself gives.
MyselfOutcomes ==
    Failures \cup {Success(Obj(<< <<<<"a","c","c","o","u","n","t","I","d">>, Str(<<"7">>)>>, <<<<"d","i","s","p","l","a","y","N","a","m","e">>, Str(<<"U">>)>> >>)),
                   Success(Null)}

IssueType(id, name) == Obj(<< <<<<"i","d">>, Str(id)>>, <<<<"n","a","m","e">>, Str(name)>> >>)

\* What GET /rest/api/3/issuetype gives.
TypeOutcomes ==
    Failures
    \cup {Success(Arr(<<IssueType(<<"1">>, <<"S","t","o","r","y">>), IssueType(<<"2">>, <<"B","u","g">>),
                        IssueType(<<"3">>, <<"U","s","e","r"," ","\"","S","t","o","r","y","\"">>), IssueType(<<"5">>, <<"S","u","b","-","t","a","s","k">>)>>)),
          Success(Arr(<<IssueType(<<"2">>, <<"B","u","g">>), Null>>)),
          Success(Null),
          Success(Obj(<< <<<<"n","a","m","e">>, Str(<<"S","u","b","t","a","s","k">>)>> >>))}

Issue(key, summary, typeName) ==
    Obj(<< <<<<"k","e","y">>, Str(key)>>,
           <<<<"f","i","e","l","d","s">>, Obj(<< <<<<"s","u","m","m","a","r","y">>, Str(summary)>>,
                                <<<<"i","s","s","u","e","t","y","p","e">>, Obj(<< <<<<"n","a","m","e">>, Str(typeName)>> >>)>> >>)>> >>)

FoundIssues ==
    <<Issue(<<"T","S","-","1">>, <<"O","n","e">>, <<"S","t","o","r","y">>), Issue(<<"T","S","-","2">>, <<"T","w","o">>, <<"B","u","g">>),
      Issue(<<"T","S","-","3">>, <<"T","h","r","e","e">>, <<"U","s","e","r"," ","S","T","O","R","Y">>), Obj(<< <<<<"k","e","y">>, Str(<<"T","S","-","4">>)>> >>)>>

\* What GET /rest/api/3/search/jql gives.
SearchOutcomes ==
    Failures
    \cup {Success(Obj(<< <<<<"i","s","s","u","e","s">>, Arr(FoundIssues)>> >>)),
          Success(Obj(<< <<<<"i","s","s","u","e","s">>, Arr(<<Null, Issue(<<"T","S","-","2">>, <<"T","w","o">>, <<"B","u","g">>)>>)>> >>)),
          Success(Null)}

\* What GET /rest/api/3/issue/TS-1 gives createSubtask.
ParentOutcomes ==
    Failures \cup {Success(Obj(<< <<<<"k","e","y">>, Str(<<"T","S","-","1">>)>> >>)), Success(Null)}

\* What POST /rest/api/3/issue and POST .../attachments give.
PostOutcomes ==
    Failures
    \cup {Failure(400, Obj(<< <<<<"e","r","r","o","r","s">>, Obj(<< <<<<"s","u","m","m","a","r","y">>, Str(<<"r","e","q","u","i","r","e","d">>)>> >>)>> >>),
                  <<"R","e","q","u","e","s","t"," ","f","a","i","l","e","d"," ","w","i","t","h"," ","s","t","a","t","u","s"," ","c","o","d","e"," ","4","0","0">>),
          Success(Obj(<< <<<<"k","e","y">>, Str(<<"T","S","-","9">>)>> >>)),
          Success(Null)}

\* The bodies of POST /create-test-subtask.
SubtaskBodies ==
    { Undefined,
      Obj(<< <<<<"p","a","r","e","n","t","K","e","y">>, Str(<<"T","S","-","1">>)>> >>),
      Obj(<< <<<<"p","a","r","e","n","t","K","e","y">>, Str(<<"T","S","-","1">>)>>, <<<<"d","e","s","c","r","i","p","t","i","o","n">>, Str(<<"c","a","s","e","s">>)>> >>) }

\* The bodies of POST /upload-test-cases.
UploadBodies ==
    { Undefined,
      Obj(<< <<<<"i","s","s","u","e","K","e","y">>, Str(<<"T","S","-","1">>)>> >>),
      Obj(<< <<<<"i","s","s","u","e","K","e","y">>, Str(<<"T","S","-","1">>)>>, <<<<"f","i","l","e","D","a","t","a">>, Str(<<"Q","Q","=","=">>)>> >>),
      Obj(<< <<<<"i","s","s","u","e","K","e","y">>, Str(<<"T","S","-","1">>)>>, <<<<"f","i","l","e","N","a","m","e">>, Str(<<"t",".","x","l","s","x">>)>>,
             <<<<"f","i","l","e","D","a","t","a">>, Str(<<"Q","Q","=","=">>)>> >>) }

\* What GET /rest/api/3/issue/TS-1 gives getStory.
RouterResponses ==
    Failures
    \cup {Success(Null),
          Success(Payload(Absent, [names |-> Absent, cf2 |-> Absent, cf4 |-> Absent], DocWithAC, Absent)),
          Success(Payload(Str(<<"<","p",">","A","C"," ","o","n","e","<","/","p",">">>), [names |-> Absent, cf2 |-> Absent, cf4 |-> Absent],
                          Absent, Num(5)))}

\* No route is being answered.
RouterReady == pc \in {"idle", "returned", "threw"}

\* The router receives a request.
Request(route, body) == [route |-> route, body |-> body]
Serves(route, body) == req' = Request(route, body)

\* A route answers: calls are the requests it sent to Jira.
Answer(calls, r) == upstream' = calls /\ reply' = r

\* { message }
Message(text) == Obj(<< <<<<"m","e","s","s","a","g","e">>, Str(text)>> >>)

\* GET /_store
Store ==
    /\ RouterReady
    /\ Serves("_store", Undefined)
    /\ Answer(<<>>, Reply("_store", 200,
                          Obj(<< <<<<"s","e","s","s","i","o","n">>, Bool(Truthy(session))>>,
                                 <<<<"j","i","r","a","C","r","e","d","s">>, OrElse(CredsOf(session), Null)>> >>)))
    /\ UNCHANGED <<session, storyVars, hin, hout, doc, split, segs, sect, uiVars>>

\* The session of the client after POST /connect built creds and
\* testConnection gave r: the credentials are saved before the test and no
\* outcome of it takes them out again.
SaveCreds_rollback(sess, creds, r) == IF IsThrow(r.out) THEN sess ELSE SessionOf(creds)

SaveCreds(sess, creds, r) == SessionOf(creds)

\* POST /connect after the credentials were saved in the session: the
\* answer for the outcome of testConnection.
Connected200(r) ==
    Answer(r.calls,
           IF IsThrow(r.out)
           THEN Reply("connect", 500, Message(OrElse(Str(r.out.e), Str(<<"F","a","i","l","e","d"," ","t","o"," ","c","o","n","n","e","c","t"," ","t","o"," ","J","i","r","a">>)).s))
           ELSE Reply("connect", 200, Obj(<< <<<<"o","k">>, Bool(TRUE)>> >>)))

\* POST /connect
Connect ==
    /\ RouterReady
    /\ \E body \in ConnectBodies, o \in MyselfOutcomes :
          /\ Serves("connect", body)
          /\ IF ~(/\ Truthy(OptGet(body, <<"b","a","s","e","U","r","l">>))
                  /\ Truthy(OptGet(body, <<"e","m","a","i","l">>))
                  /\ Truthy(OptGet(body, <<"a","p","i","T","o","k","e","n">>)))
             THEN /\ Answer(<<>>, Reply("connect", 400, Message(<<"b","a","s","e","U","r","l",","," ","e","m","a","i","l"," ","a","n","d"," ","a","p","i","T","o","k","e","n"," ","a","r","e"," ","r","e","q","u","i","r","e","d">>)))
                  /\ UNCHANGED session
             ELSE IF ~IsString(Get(body, <<"b","a","s","e","U","r","l">>))
             THEN /\ Answer(<<>>, Reply("connect", 500, Message(<<"b","a","s","e","U","r","l",".","r","e","p","l","a","c","e"," ","i","s"," ","n","o","t"," ","a"," ","f","u","n","c","t","i","o","n">>)))
                  /\ UNCHANGED session
             ELSE \E creds \in {Creds(Get(body, <<"b","a","s","e","U","r","l">>).s, Get(body, <<"e","m","a","i","l">>).s,
                                       Get(body, <<"a","p","i","T","o","k","e","n">>).s)} :
                     \E r \in {testConnection(creds, o)} :
                         /\ session' = SaveCreds(session, creds, r)
                         /\ Connected200(r)
    /\ UNCHANGED <<storyVars, hin, hout, doc, split, segs, sect, uiVars>>

\* The answer of a route for the outcome r of its service call: the value
\* ok makes of what the call returned, or status 500 with the message of
\* the error, fallback if it has none.
Answered(route, r, ok, fallback) ==
    Answer(r.calls,
           IF IsThrow(r.out)
           THEN Reply(route, 500, Message(OrElse(Str(r.out.e), Str(fallback)).s))
           ELSE Reply(route, 200, ok))

\* GET /stories
Stories ==
    /\ RouterReady
    /\ Serves("stories", Undefined)
    /\ \E o1 \in TypeOutcomes, o2 \in SearchOutcomes, o3 \in SearchOutcomes :
          \E r \in {getStories(CredsOf(session), o1, o2, o3)} :
              Answered("stories", r, r.out, <<"F","a","i","l","e","d"," ","t","o"," ","f","e","t","c","h"," ","s","t","o","r","i","e","s">>)
    /\ UNCHANGED <<session, storyVars, hin, hout, doc, split, segs, sect, uiVars>>

\* GET /story/TS-1: the route calls getStory, whose steps are the actions
\* Fetch to Finalize.
Story ==
    /\ RouterReady
    /\ Serves("story", Undefined)
    /\ pc' = "fetch"
    /\ resp' \in RouterResponses
    /\ data' = NotRun
    /\ acPlain' = Undefined
    /\ descriptionPlain' = Undefined
    /\ result' = NotRun
    /\ Answer(<<>>, NotRun)
    /\ UNCHANGED <<env, session, hin, hout, doc, split, segs, sect, uiVars>>

\* The catch block of POST /create-test-subtask.
SubtaskFailed(r) ==
    Reply("create-test-subtask", 500,
          Obj(<< <<<<"m","e","s","s","a","g","e">>, OrElse(Str(r.out.e), Str(<<"U","n","k","n","o","w","n"," ","e","r","r","o","r">>))>>,
                 <<<<"d","e","t","a","i","l","s">>, Null>>,
                 <<<<"e","r","r","o","r">>, Str(<<"E","r","r","o","r",":"," ">> \o r.out.e)>> >>))

\* The handler of POST /create-test-subtask on a request with this body,
\* given what the requests of createSubtask give.
CreateTestSubtaskOn(body, o1, o2, o3) ==
    /\ Serves("create-test-subtask", body)
    /\ IF ~Truthy(CredsOf(session))
       THEN Answer(<<>>, Reply("create-test-subtask", 401, Message(<<"N","o","t"," ","c","o","n","n","e","c","t","e","d"," ","t","o"," ","J","i","r","a">>)))
       ELSE IF ~Truthy(OptGet(body, <<"p","a","r","e","n","t","K","e","y">>))
       THEN Answer(<<>>, Reply("create-test-subtask", 400, Message(<<"p","a","r","e","n","t","K","e","y"," ","i","s"," ","r","e","q","u","i","r","e","d">>)))
       ELSE \E r \in {createSubtask(CredsOf(session), Get(body, <<"p","a","r","e","n","t","K","e","y">>), Str(<<"C","r","e","a","t","e"," ","T","e","s","t","c","a","s","e","s">>),
                                    OrElse(Get(body, <<"d","e","s","c","r","i","p","t","i","o","n">>),
                                           Str(<<"T","e","s","t"," ","c","a","s","e","s"," ","h","a","v","e"," ","b","e","e","n"," ","g","e","n","e","r","a","t","e","d"," ","a","n","d"," ","a","r","e"," ","r","e","a","d","y"," ","f","o","r"," ","r","e","v","i","e","w",".">>)),
                                    o1, o2, o3)} :
                Answer(r.calls,
                       IF IsThrow(r.out) THEN SubtaskFailed(r)
                       ELSE Reply("create-test-subtask", 200,
                                  Obj(<< <<<<"o","k">>, Bool(TRUE)>>, <<<<"s","u","b","t","a","s","k","K","e","y">>, r.out>> >>)))

\* POST /create-test-subtask
CreateTestSubtask ==
    /\ RouterReady
    /\ \E body \in SubtaskBodies, o1 \in ParentOutcomes, o2 \in TypeOutcomes, o3 \in PostOutcomes :
          CreateTestSubtaskOn(body, o1, o2, o3)
    /\ UNCHANGED <<session, storyVars, hin, hout, doc, split, segs, sect, uiVars>>

\* The handler of POST /upload-test-cases on a request with this body, given
\* what the request of uploadAttachment gives.
UploadTestCasesOn(body, o) ==
    /\ Serves("upload-test-cases", body)
    /\ IF ~Truthy(CredsOf(session))
       THEN Answer(<<>>, Reply("upload-test-cases", 401, Message(<<"N","o","t"," ","c","o","n","n","e","c","t","e","d"," ","t","o"," ","J","i","r","a">>)))
       ELSE IF ~Truthy(OptGet(body, <<"i","s","s","u","e","K","e","y">>)) \/ ~Truthy(OptGet(body, <<"f","i","l","e","D","a","t","a">>))
       THEN Answer(<<>>, Reply("upload-test-cases", 400, Message(<<"i","s","s","u","e","K","e","y"," ","a","n","d"," ","f","i","l","e","D","a","t","a"," ","a","r","e"," ","r","e","q","u","i","r","e","d">>)))
       ELSE \E r \in {uploadAttachment(CredsOf(session), Get(body, <<"i","s","s","u","e","K","e","y">>),
                                       OrElse(Get(body, <<"f","i","l","e","N","a","m","e">>), Str(<<"T","e","s","t","C","a","s","e","s",".","x","l","s","x">>)), o)} :
                Answered("upload-test-cases", r,
                         Obj(<< <<<<"o","k">>, Bool(TRUE)>>,
                                <<<<"m","e","s","s","a","g","e">>, Str(<<"F","i","l","e"," ","u","p","l","o","a","d","e","d"," ","s","u","c","c","e","s","s","f","u","l","l","y">>)>> >>),
                         <<"F","a","i","l","e","d"," ","t","o"," ","u","p","l","o","a","d"," ","a","t","t","a","c","h","m","e","n","t">>)

\* POST /upload-test-cases
UploadTestCases ==
    /\ RouterReady
    /\ \E body \in UploadBodies, o \in PostOutcomes : UploadTestCasesOn(body, o)
    /\ UNCHANGED <<session, storyVars, hin, hout, doc, split, segs, sect, uiVars>>

InitRouter ==
    /\ session \in FreshSessions
    /\ upstream = <<>>
    /\ req = NotRun
    /\ reply = NotRun
    /\ env \in EnvChoices
    /\ resp = NotRun /\ pc = "idle" /\ data = NotRun
    /\ acPlain = Undefined /\ descriptionPlain = Undefined /\ result = NotRun
    /\ HtmlIdle /\ AdfIdle /\ SectionIdle /\ UiIdle

NextRouter ==
    \/ Store
    \/ Connect
    \/ Stories
    \/ Story
    \/ Fetch
    \/ ConfiguredField
    \/ AutoDiscover
    \/ SplitDescription
    \/ RenderedSection
    \/ Finalize
    \/ CreateTestSubtask
    \/ UploadTestCases

SpecRouter == InitRouter /\ [][NextRouter]_vars

-----------------------------------------------------------------------------
(* The service functions, each called once with any credentials *)

\* The credentials a service function may be handed: none, null, an object
\* without fields, an empty baseUrl, an empty authHeader, and those of a
\* connected client.
CredsChoices ==
    { Undefined, Null, Obj(<<>>),
      Creds(<<"/">>, <<"a","@","b">>, <<"p","w">>),
      Obj(<< <<<<"b","a","s","e","U","r","l">>, Str(<<"h","t","t","p","s",":","/","/","j","i","r","a",".","e","x","a","m","p","l","e">>)>>, <<<<"a","u","t","h","H","e","a","d","e","r">>, Str(<<>>)>> >>),
      Creds(<<"h","t","t","p","s",":","/","/","j","i","r","a",".","e","x","a","m","p","l","e","/">>, <<"u","@","x">>, <<"t","0","k">>) }

\* The call returns or throws: r is what it did.
Returns(name, r) ==
    /\ called' = name
    /\ upstream' = r.calls
    /\ result' = r.out

serviceFrame ==
    <<env, resp, pc, data, acPlain, descriptionPlain, session, req, reply, hin, hout, doc, split, segs, sect,
      formData, results, expandedTestCases, selectedStory, checkedTestCases, approvedTestCases,
      rejectedTestCases, step, posted, alerts>>

CallTestConnection ==
    /\ called = "none"
    /\ \E o \in MyselfOutcomes : Returns("testConnection", testConnection(CredsOf(session), o))
    /\ UNCHANGED serviceFrame

CallGetStories ==
    /\ called = "none"
    /\ \E o1 \in TypeOutcomes, o2 \in SearchOutcomes, o3 \in SearchOutcomes :
          Returns("getStories", getStories(CredsOf(session), o1, o2, o3))
    /\ UNCHANGED serviceFrame

\* getStory is called: its steps are the actions Fetch to Finalize.
CallGetStory ==
    /\ called = "none"
    /\ called' = "getStory"
    /\ pc' = "fetch"
    /\ resp' \in RouterResponses
    /\ UNCHANGED <<env, data, acPlain, descriptionPlain, result, session, upstream, req, reply,
                   hin, hout, doc, split, segs, sect,
                   formData, results, expandedTestCases, selectedStory, checkedTestCases,
                   approvedTestCases, rejectedTestCases, step, posted, alerts>>

CallCreateSubtask ==
    /\ called = "none"
    /\ \E o1 \in ParentOutcomes, o2 \in TypeOutcomes, o3 \in PostOutcomes :
          Returns("createSubtask",
                  createSubtask(CredsOf(session), Str(<<"T","S","-","1">>), Str(<<"C","r","e","a","t","e"," ","T","e","s","t","c","a","s","e","s">>), Str(<<"c","a","s","e","s">>),
                                o1, o2, o3))
    /\ UNCHANGED serviceFrame

CallUploadAttachment ==
    /\ called = "none"
    /\ \E o \in PostOutcomes :
          Returns("uploadAttachment",
                  uploadAttachment(CredsOf(session), Str(<<"T","S","-","9">>), Str(<<"t",".","x","l","s","x">>), o))
    /\ UNCHANGED serviceFrame

InitService ==
    /\ session \in {SessionOf(c) : c \in CredsChoices}
    /\ upstream = <<>>
    /\ req = NotRun
    /\ reply = NotRun
    /\ env \in EnvChoices
    /\ resp = NotRun /\ pc = "idle" /\ data = NotRun
    /\ acPlain = Undefined /\ descriptionPlain = Undefined /\ result = NotRun
    /\ HtmlIdle /\ AdfIdle /\ SectionIdle /\ UiIdle

NextService ==
    \/ CallTestConnection
    \/ CallGetStories
    \/ CallGetStory
    \/ Fetch
    \/ ConfiguredField
    \/ AutoDiscover
    \/ SplitDescription
    \/ RenderedSection
    \/ Finalize
    \/ CallCreateSubtask
    \/ CallUploadAttachment

SpecService == InitService /\ [][NextService]_vars
-----------------------------------------------------------------------------
(* The page: the review of the generated test cases *)

MaxCases == 3

\* The ids the generator gives test cases; two cases may share one.
CaseIds == {"TC-001", "TC-002"}

\* A test case of a response: its title tells its place in the response.
TestCase(id, k) == [id |-> id, title |-> k]

\* The responses of generateTests: up to MaxCases test cases.
GenerateResponses ==
    UNION {{[cases |-> [k \in 1..n |-> TestCase(f[k], k)], model |-> "m1", promptTokens |-> n]
               : f \in [1..n -> CaseIds]} : n \in 0..MaxCases}

\* The forms and the linked stories the review may start from: the empty
\* form and no story, or a story linked and its fields in the form.
LinkedStory ==
    Obj(<< <<<<"k","e","y">>, Str(<<"T","S","-","1">>)>>, <<<<"t","i","t","l","e">>, Str(<<"T">>)>>, <<<<"d","e","s","c","r","i","p","t","i","o","n">>, Str(<<>>)>>,
           <<<<"a","c","c","e","p","t","a","n","c","e","C","r","i","t","e","r","i","a">>, Str(<<"A","C">>)>> >>)
FilledForm ==
    [storyTitle |-> <<"T">>, acceptanceCriteria |-> <<"A","C">>, description |-> <<>>, additionalInfo |-> <<>>]

\* The ids of the rows the page shows: the buttons of a row act on its id.
ShownIds == IF results = Null THEN {} ELSE {results.cases[k].id : k \in 1..Len(results.cases)}

\* newSet.has(id) ? newSet.delete(id) : newSet.add(id)
Toggled(set, id) == IF id \in set THEN set \ {id} ELSE set \cup {id}

reviewFrame == <<hin, hout, doc, split, segs, sect, storyVars, proxyVars, called, step, posted, alerts>>

\* handleSubmit, when generateTests resolves: the form had a title and
\* acceptance criteria.
Submit ==
    /\ formData.storyTitle # <<>> /\ formData.acceptanceCriteria # <<>>
    /\ results' \in GenerateResponses
    /\ UNCHANGED <<formData, selectedStory, expandedTestCases, checkedTestCases, approvedTestCases,
                   rejectedTestCases, reviewFrame>>

toggleTestCaseExpansion(testCaseId) ==
    /\ expandedTestCases' = Toggled(expandedTestCases, testCaseId)
    /\ UNCHANGED <<formData, results, selectedStory, checkedTestCases, approvedTestCases,
                   rejectedTestCases, reviewFrame>>

toggleCheckTestCase(testCaseId) ==
    /\ checkedTestCases' = Toggled(checkedTestCases, testCaseId)
    /\ UNCHANGED <<formData, results, selectedStory, expandedTestCases, approvedTestCases,
                   rejectedTestCases, reviewFrame>>

\* newRejected.delete(testCaseId) of handleApproveTestCase
RejectedAfterApprove_kept(rejected, testCaseId) == rejected

RejectedAfterApprove(rejected, testCaseId) == rejected \ {testCaseId}

handleApproveTestCase(testCaseId) ==
    /\ approvedTestCases' = approvedTestCases \cup {testCaseId}
    /\ rejectedTestCases' = RejectedAfterApprove(rejectedTestCases, testCaseId)
    /\ UNCHANGED <<formData, results, selectedStory, expandedTestCases, checkedTestCases, reviewFrame>>

handleRejectTestCase(testCaseId) ==
    /\ approvedTestCases' = approvedTestCases \ {testCaseId}
    /\ rejectedTestCases' = rejectedTestCases \cup {testCaseId}
    /\ UNCHANGED <<formData, results, selectedStory, expandedTestCases, checkedTestCases, reviewFrame>>

RECURSIVE filter(_, _)
\* cases.find in place of cases.filter: the first case kept only
filter_first(cases, keep) ==
    IF cases = <<>> THEN <<>>
    ELSE IF cases[1].id \in keep THEN <<cases[1]>>
    ELSE filter(Tail(cases), keep)

\* cases.filter(testCase => keep.has(testCase.id))
filter(cases, keep) ==
    IF cases = <<>> THEN <<>>
    ELSE IF cases[1].id \in keep THEN <<cases[1]>> \o filter(Tail(cases), keep)
    ELSE filter(Tail(cases), keep)

\* The page shows the results and their buttons once there are results.
handleCompleteReview ==
    /\ results # Null
    /\ results' = [results EXCEPT !.cases = filter(results.cases, approvedTestCases)]
    /\ checkedTestCases' = {}
    /\ approvedTestCases' = {}
    /\ rejectedTestCases' = {}
    /\ UNCHANGED <<formData, selectedStory, expandedTestCases, reviewFrame>>

\* The 'Status' of a row in the exported sheet
Status(testCase) ==
    IF testCase.id \in approvedTestCases THEN "Approved"
    ELSE IF testCase.id \in rejectedTestCases THEN "Rejected"
    ELSE "Not Reviewed"

InitReview ==
    /\ \/ formData = FilledForm /\ selectedStory = LinkedStory
       \/ formData = FilledForm /\ selectedStory = Null
    /\ results = Null
    /\ expandedTestCases = {} /\ checkedTestCases = {}
    /\ approvedTestCases = {} /\ rejectedTestCases = {}
    /\ called = "none" /\ step = "idle" /\ posted = <<>> /\ alerts = <<>>
    /\ HtmlIdle /\ AdfIdle /\ SectionIdle /\ StoryIdle /\ ProxyIdle

NextReview ==
    \/ Submit
    \/ \E id \in ShownIds : toggleTestCaseExpansion(id)
    \/ \E id \in ShownIds : toggleCheckTestCase(id)
    \/ \E id \in ShownIds : handleApproveTestCase(id)
    \/ \E id \in ShownIds : handleRejectTestCase(id)
    \/ handleCompleteReview

SpecReview == InitReview /\ [][NextReview]_vars
-----------------------------------------------------------------------------
(* The page: 'Create Jira Subtask', from the button to the last alert *)

MaxFlows == 2

\* A test case with its steps.
Stepped(testCase, steps) == [id |-> testCase.id, title |-> testCase.title, steps |-> steps]

\* The results the flow may start from: no test case, two test cases, and
\* a response whose second test case came without steps.
FlowResults ==
    { [cases |-> <<>>, model |-> "m1", promptTokens |-> 0],
      [cases |-> <<Stepped(TestCase("TC-001", 1), Arr(<<Str(<<"o","p","e","n">>)>>)),
                   Stepped(TestCase("TC-002", 2), Arr(<<>>))>>,
       model |-> "m1", promptTokens |-> 2],
      [cases |-> <<Stepped(TestCase("TC-001", 1), Arr(<<Str(<<"o","p","e","n">>)>>)),
                   Stepped(TestCase("TC-002", 2), Undefined)>>,
       model |-> "m1", promptTokens |-> 2] }

\* The story handleLinkStory leaves selected when getStoryDetails failed.
ErrorStory ==
    Obj(<< <<<<"t","i","t","l","e">>, Str(<<"E","r","r","o","r">>)>>, <<<<"d","e","s","c","r","i","p","t","i","o","n">>, Str(<<"<","p",">","N","e","t","w","o","r","k"," ","E","r","r","o","r","<","/","p",">">>)>> >>)

\* A request of the page to the proxy and what came back: a Reply, NotRun
\* while it is awaited, Undefined when no response arrived.
Posted(route, body, answer) == [route |-> route, body |-> body, answer |-> answer]

\* createTestSubtask(parentKey, description) of ./api: the request it posts
PostCreateTestSubtask(parentKey, description) ==
    Posted("create-test-subtask",
           Obj(<< <<<<"p","a","r","e","n","t","K","e","y">>, parentKey>>, <<<<"d","e","s","c","r","i","p","t","i","o","n">>, description>> >>), NotRun)

\* uploadTestCasesFile(issueKey, fileName, fileData) of ./api: the request
\* it posts
PostUploadTestCasesFile(issueKey, fileName, fileData) ==
    Posted("upload-test-cases",
           Obj(<< <<<<"i","s","s","u","e","K","e","y">>, issueKey>>, <<<<"f","i","l","e","N","a","m","e">>, fileName>>, <<<<"f","i","l","e","D","a","t","a">>, fileData>> >>),
           NotRun)

\* ./api: the promise of a request resolves with the body of a 2xx response
\* and rejects otherwise.
Resolves(answer) == answer # Undefined /\ answer.status \in 200..299

\* The error the promise rejects with: the response, if any, and a message.
Rejection(answer) ==
    [response |-> answer,
     message |-> IF answer = Undefined THEN <<"N","e","t","w","o","r","k"," ","E","r","r","o","r">>
                 ELSE <<"R","e","q","u","e","s","t"," ","f","a","i","l","e","d"," ","w","i","t","h"," ","s","t","a","t","u","s"," ","c","o","d","e"," ">> \o NatToString(answer.status)]

\* error?.response?.data
ResponseData(error) == IF error.response = Undefined THEN Undefined ELSE error.response.body

\* The alert of the catch block
ErrorAlert(error) ==
    <<"E","r","r","o","r",":"," ">>
    \o OrElse(OptGet(ResponseData(error), <<"m","e","s","s","a","g","e">>),
              OrElse(OptGet(ResponseData(error), <<"e","r","r","o","r">>),
                     OrElse(Str(error.message), Str(<<"U","n","k","n","o","w","n"," ","e","r","r","o","r">>)))).s
    \o (IF Truthy(OptGet(ResponseData(error), <<"d","e","t","a","i","l","s">>))
        THEN <<"\n","\n","D","e","t","a","i","l","s",":"," ">> \o JSONstringify(Get(ResponseData(error), <<"d","e","t","a","i","l","s">>)).s
        ELSE <<>>)

\* testCase.steps.join(' | ') works for every test case.
Exportable(cases) == \A k \in 1..Len(cases) : cases[k].steps.t = "array"

\* XLSX.write(workbook, { bookType: 'xlsx', type: 'base64' })
base64Data == Str(<<"U","E","s","D","B","A","=","=">>)

\* The issue the file is uploaded to: subtaskRes.subtaskKey
UploadTarget_parent(subtaskRes, story) == Get(story, <<"k","e","y">>)

UploadTarget(subtaskRes, story) == Get(subtaskRes, <<"s","u","b","t","a","s","k","K","e","y">>)

\* The last request of the page, answered.
Settled(answer) == [posted EXCEPT ![Len(posted)].answer = answer]

flowFrame ==
    <<hin, hout, doc, split, segs, sect, storyVars, called, formData, results, expandedTestCases,
      selectedStory, checkedTestCases, approvedTestCases, rejectedTestCases>>

\* handleCreateSubtaskWithFile up to its first await
handleCreateSubtaskWithFile ==
    /\ step = "idle"
    /\ Len(alerts) < MaxFlows
    /\ results # Null
    /\ IF ~Truthy(OptGet(selectedStory, <<"k","e","y">>))
       THEN alerts' = Append(alerts, <<"P","l","e","a","s","e"," ","s","e","l","e","c","t"," ","a"," ","u","s","e","r"," ","s","t","o","r","y"," ","f","i","r","s","t">>) /\ UNCHANGED <<step, posted>>
       ELSE IF results.cases = <<>>
       THEN alerts' = Append(alerts, <<"P","l","e","a","s","e"," ","g","e","n","e","r","a","t","e"," ","t","e","s","t"," ","c","a","s","e","s"," ","f","i","r","s","t">>) /\ UNCHANGED <<step, posted>>
       ELSE IF ~Exportable(results.cases)
       THEN /\ alerts' = Append(alerts, ErrorAlert([response |-> Undefined,
                                           message |-> <<"C","a","n","n","o","t"," ","r","e","a","d"," ","p","r","o","p","e","r","t","i","e","s"," ","o","f"," ","u","n","d","e","f","i","n","e","d"," ","(","r","e","a","d","i","n","g"," ","'","j","o","i","n","'",")">>]))
            /\ UNCHANGED <<step, posted>>
       ELSE IF ~Truthy(base64Data)
       THEN /\ alerts' = Append(alerts, <<"E","r","r","o","r",":"," ","F","a","i","l","e","d"," ","t","o"," ","c","o","n","v","e","r","t"," ","E","x","c","e","l"," ","f","i","l","e"," ","t","o"," ","b","a","s","e","6","4">>)
            /\ UNCHANGED <<step, posted>>
       ELSE /\ posted' = Append(posted,
                                PostCreateTestSubtask(Get(selectedStory, <<"k","e","y">>),
                                                      Str(<<"G","e","n","e","r","a","t","e","d"," ">> \o NatToString(Len(results.cases))
                                                          \o <<" ","t","e","s","t"," ","c","a","s","e","s"," ","f","o","r"," ","t","h","i","s"," ","u","s","e","r"," ","s","t","o","r","y">>)))
            /\ step' = "creating"
            /\ UNCHANGED alerts
    /\ UNCHANGED <<proxyVars, flowFrame>>

\* After the answer of createTestSubtask: the upload, or the catch block.
AfterCreate(answer) ==
    /\ IF Resolves(answer)
       THEN /\ posted' = Append(Settled(answer),
                                PostUploadTestCasesFile(
                                    UploadTarget(answer.body, selectedStory),
                                    Str(<<"T","e","s","t","C","a","s","e","s","_">> \o JsToString(Get(selectedStory, <<"k","e","y">>))
                                        \o <<"_","2","0","2","6","-","0","1","-","0","1",".","x","l","s","x">>),
                                    base64Data))
            /\ step' = "uploading"
            /\ UNCHANGED alerts
       ELSE /\ posted' = Settled(answer)
            /\ step' = "idle"
            /\ alerts' = Append(alerts, ErrorAlert(Rejection(answer)))

\* The proxy answers the request of createTestSubtask and the handler goes
\* on from its await.
SubtaskAnswered ==
    /\ step = "creating"
    /\ \E o1 \in ParentOutcomes, o2 \in TypeOutcomes, o3 \in PostOutcomes :
          /\ CreateTestSubtaskOn(posted[Len(posted)].body, o1, o2, o3)
          /\ AfterCreate(reply')
    /\ UNCHANGED <<session, flowFrame>>

\* No response to the request of createTestSubtask.
SubtaskUnanswered ==
    /\ step = "creating"
    /\ AfterCreate(Undefined)
    /\ UNCHANGED <<proxyVars, flowFrame>>

\* After the answer of uploadTestCasesFile: the last alert of the handler.
AfterUpload(answer) ==
    /\ posted' = Settled(answer)
    /\ step' = "idle"
    /\ alerts' = Append(alerts,
                        IF Resolves(answer)
                        THEN <<"S","u","b","t","a","s","k"," ","c","r","e","a","t","e","d"," ","s","u","c","c","e","s","s","f","u","l","l","y",":"," ">>
                                 \o JsToString(Get(posted[Len(posted)].body, <<"i","s","s","u","e","K","e","y">>))
                                 \o <<"\n","T","e","s","t"," ","c","a","s","e","s"," ","f","i","l","e"," ","h","a","s"," ","b","e","e","n"," ","a","t","t","a","c","h","e","d",".">>
                        ELSE ErrorAlert(Rejection(answer)))

UploadAnswered ==
    /\ step = "uploading"
    /\ \E o \in PostOutcomes :
          /\ UploadTestCasesOn(posted[Len(posted)].body, o)
          /\ AfterUpload(reply')
    /\ UNCHANGED <<session, flowFrame>>

UploadUnanswered ==
    /\ step = "uploading"
    /\ AfterUpload(Undefined)
    /\ UNCHANGED <<proxyVars, flowFrame>>

InitFlow ==
    /\ session \in {ConnectedSession, Undefined}
    /\ upstream = <<>> /\ req = NotRun /\ reply = NotRun
    /\ selectedStory \in {Null, ErrorStory, LinkedStory}
    /\ formData = FilledForm
    /\ results \in FlowResults
    /\ expandedTestCases = {} /\ checkedTestCases = {}
    /\ approvedTestCases = {} /\ rejectedTestCases = {}
    /\ called = "none" /\ step = "idle" /\ posted = <<>> /\ alerts = <<>>
    /\ HtmlIdle /\ AdfIdle /\ SectionIdle /\ StoryIdle

NextFlow ==
    \/ handleCreateSubtaskWithFile
    \/ SubtaskAnswered
    \/ SubtaskUnanswered
    \/ UploadAnswered
    \/ UploadUnanswered

SpecFlow == InitFlow /\ [][NextFlow]_vars
-----------------------------------------------------------------------------
(* Properties of htmlToPlain, under SpecHtml *)

Chars(s) == {s[i] : i \in 1..Len(s)}

\* A text without tags or entities: none of the characters that open or
\* close them.
MarkupFree(s) == Chars(s) \cap {"<", ">", "&"} = {}

NonBlank(s) == \E i \in 1..Len(s) : ~IsWS(s[i])

\* A text the clean-up of htmlToPlain leaves as it is: no white space at
\* either end, no carriage return, no blank before a newline, no three
\* newlines in a row.
WhitespaceNormal(s) ==
    /\ s # <<>> => ~IsWS(s[1]) /\ ~IsWS(s[Len(s)])
    /\ "\r" \notin Chars(s)
    /\ \A i \in 1..(Len(s) - 1) : s[i + 1] = "\n" => s[i] \notin {" ", "\t"}
    /\ \A i \in 1..(Len(s) - 2) : ~(s[i] = "\n" /\ s[i + 1] = "\n" /\ s[i + 2] = "\n")

ParasDone == hin # NotRun /\ hin.kind = "paras" /\ hout # NotRun
ListDone == hin # NotRun /\ hin.kind = "list" /\ hout # NotRun
DoubleDone == hin # NotRun /\ hin.kind = "double" /\ hout # NotRun

\* C7 as stated: for tag-free, entity-free, non-blank texts A and B,
\* htmlToPlain('<p>A</p><p>B</p>') = A + '\n' + B.
C7_SingleNewline ==
    (ParasDone /\ MarkupFree(hin.a) /\ MarkupFree(hin.b) /\ NonBlank(hin.a) /\ NonBlank(hin.b))
        => hout = Str(hin.a \o <<"\n">> \o hin.b)

\* C7 amended: for texts A and B that are non-blank, free of '<', '>' and
\* '&', and whitespace-normal, htmlToPlain('<p>A</p><p>B</p>') is A, a blank
\* line, B: A + '\n\n' + B.
C7_BlankLineBetweenParagraphs ==
    (ParasDone /\ MarkupFree(hin.a) /\ MarkupFree(hin.b) /\ NonBlank(hin.a) /\ NonBlank(hin.b)
        /\ WhitespaceNormal(hin.a) /\ WhitespaceNormal(hin.b))
        => hout = Str(hin.a \o <<"\n","\n">> \o hin.b)

C7_Witness ==
    /\ ParasDone /\ hin.a = <<"H","e","l","l","o">> /\ hin.b = <<"W","o","r","l","d">>
    /\ hout = Str(<<"H","e","l","l","o","\n","\n","W","o","r","l","d">>)

\* C8 as stated: for tag-free, entity-free, non-blank texts A and B,
\* htmlToPlain('<ul><li>A</li><li>B</li></ul>') = '- ' + A + '\n- ' + B.
C8_OneNewlineBetweenItems ==
    (ListDone /\ MarkupFree(hin.a) /\ MarkupFree(hin.b) /\ NonBlank(hin.a) /\ NonBlank(hin.b))
        => hout = Str(<<"-"," ">> \o hin.a \o <<"\n","-"," ">> \o hin.b)

\* C8 amended: for texts A and B that are non-blank, free of '<', '>' and
\* '&', and whitespace-normal, htmlToPlain('<ul><li>A</li><li>B</li></ul>')
\* is one '- item' line per item with a blank line between them:
\* '- ' + A + '\n\n- ' + B.
C8_BlankLineBetweenItems ==
    (ListDone /\ MarkupFree(hin.a) /\ MarkupFree(hin.b) /\ NonBlank(hin.a) /\ NonBlank(hin.b)
        /\ WhitespaceNormal(hin.a) /\ WhitespaceNormal(hin.b))
        => hout = Str(<<"-"," ">> \o hin.a \o <<"\n","\n","-"," ">> \o hin.b)

C8_Witness ==
    /\ ListDone /\ hin.a = <<"H","e","l","l","o">> /\ hin.b = <<"W","o","r","l","d">>
    /\ hout = Str(<<"-"," ","H","e","l","l","o","\n","\n","-"," ","W","o","r","l","d">>)

\* C9: a double-encoded entity (the '&' of a supported entity E written as
\* '&amp;') is decoded one pass: the result is the literal text E.
C9_DecodedOnePass == DoubleDone => hout = Str(hin.e)

-----------------------------------------------------------------------------
(* Properties of adfToPlain, under SpecAdf *)

SplitDone == doc # NotRun /\ split # NotRun

\* The top-level nodes of the document.
TopNodes == LoopElements(OrElse(Get(doc, K_content), Arr(<<>>)))

\* adfToPlain returned.
SplitReturned == SplitDone /\ ~IsThrow(split)

\* The trimmed rendered text of top-level node i, when adfToPlain returned.
NodeText(i) == Trim(extractTextFromNode(TopNodes[i]).s)

LowerText(s) == [i \in 1..Len(s) |-> Lower(s[i])]

\* The pattern as the spec words it: 'acceptance criteria', optionally
\* followed by a colon, and nothing else, case-insensitively.
WordedPattern(text) ==
    LowerText(text) \in {<<"a","c","c","e","p","t","a","n","c","e"," ","c","r","i","t","e","r","i","a">>, <<"a","c","c","e","p","t","a","n","c","e"," ","c","r","i","t","e","r","i","a",":">>}

\* The pattern the code tests: 'acceptance', any white space (none too),
\* 'criteria', any white space, an optional colon, case-insensitively.
SpacedPattern(text) ==
    \E p \in 11..(Len(text) + 1) : \E q \in (p + 8)..(Len(text) + 1) :
        /\ SubSeq(LowerText(text), 1, 10) = <<"a","c","c","e","p","t","a","n","c","e">>
        /\ \A j \in 11..(p - 1) : IsWS(text[j])
        /\ SubSeq(LowerText(text), p, p + 7) = <<"c","r","i","t","e","r","i","a">>
        /\ \A j \in (p + 8)..(q - 1) : IsWS(text[j])
        /\ SubSeq(text, q, Len(text)) \in {<<>>, <<":">>}

\* The rendered text of the nodes lo..hi in source order: the texts that are
\* not empty, one per line.
RenderedText(lo, hi) ==
    LET idx == {i \in lo..hi : NodeText(i) # <<>>}
        RECURSIVE Lines(_)
        Lines(S) == IF S = {} THEN <<>>
                    ELSE LET i == MinOf(S) IN
                         IF S = {i} THEN NodeText(i) ELSE NodeText(i) \o <<"\n">> \o Lines(S \ {i})
    IN  Lines(idx)

\* The split at node k.
SplitAt(k) ==
    /\ Get(split, K_description) = Str(RenderedText(1, k - 1))
    /\ Get(split, K_acceptanceCriteria) = Str(RenderedText(k + 1, Len(TopNodes)))

Unsplit ==
    /\ Get(split, K_description) = Str(RenderedText(1, Len(TopNodes)))
    /\ Get(split, K_acceptanceCriteria) = Str(<<>>)

\* C1 as stated: with k the first top-level node whose trimmed text is
\* 'acceptance criteria' optionally followed by a colon, description is the
\* text of the nodes before k and acceptanceCriteria that of the nodes after.
C1_SplitsAtFirstWordedHeading ==
    SplitReturned =>
        \A k \in 1..Len(TopNodes) :
            (WordedPattern(NodeText(k)) /\ \A j \in 1..(k - 1) : ~WordedPattern(NodeText(j)))
                => SplitAt(k)

\* C1 amended: with k the first top-level node whose trimmed text is
\* 'acceptance', any white space or none, 'criteria', any white space, an
\* optional colon (case-insensitively), description is the rendered text of
\* the nodes before k, acceptanceCriteria the rendered text of the nodes
\* after k, later matching nodes included, and node k is in neither.
C1_SplitsAtFirstHeading ==
    SplitReturned =>
        \A k \in 1..Len(TopNodes) :
            (SpacedPattern(NodeText(k)) /\ \A j \in 1..(k - 1) : ~SpacedPattern(NodeText(j)))
                => SplitAt(k)

\* A document with text before the first heading and a second heading after
\* it, which is kept as content.
C1_Witness ==
    /\ SplitReturned
    /\ doc = AdfDoc(<<Paragraph(<<"D","e","s","c"," ","l","i","n","e">>), Heading(<<"A","C","C","E","P","T","A","N","C","E"," ","C","R","I","T","E","R","I","A">>), Paragraph(<<"A","c","c","e","p","t","a","n","c","e"," ","C","r","i","t","e","r","i","a",":">>)>>)
    /\ Get(split, K_description) = Str(<<"D","e","s","c"," ","l","i","n","e">>)
    /\ Get(split, K_acceptanceCriteria) = Str(<<"A","c","c","e","p","t","a","n","c","e"," ","C","r","i","t","e","r","i","a",":">>)

\* C2 as stated: a document none of whose top-level nodes is 'acceptance
\* criteria' with an optional colon has acceptanceCriteria = '' and the full
\* rendered text as description.
C2_NoWordedHeadingNoSplit ==
    (SplitReturned /\ \A k \in 1..Len(TopNodes) : ~WordedPattern(NodeText(k))) => Unsplit

\* C2 amended: a document none of whose top-level nodes is 'acceptance', any
\* white space or none, 'criteria', any white space, an optional colon
\* (case-insensitively) has acceptanceCriteria = '' and the full rendered
\* text, the texts of all top-level nodes in order, as description.
C2_NoHeadingNoSplit ==
    (SplitReturned /\ \A k \in 1..Len(TopNodes) : ~SpacedPattern(NodeText(k))) => Unsplit

C2_Witness ==
    /\ SplitReturned
    /\ doc = AdfDoc(<<Paragraph(<<"D","e","s","c"," ","l","i","n","e">>), Paragraph(<<" ">>), BulletList(<<ListItem(<<"i","t","e","m"," ","o","n","e">>), ListItem(<<"i","t","e","m"," ","t","w","o">>)>>)>>)
    /\ Get(split, K_description) = Str(<<"D","e","s","c"," ","l","i","n","e","\n","-"," ","i","t","e","m"," ","o","n","e","\n","-"," ","i","t","e","m"," ","t","w","o">>)
    /\ Get(split, K_acceptanceCriteria) = Str(<<>>)

\* C6: rendering never raises and gives a string: every top-level node of
\* every document renders to a string, and adfToPlain returns.
C6_RenderingIsTotal ==
    SplitDone =>
        /\ \A i \in 1..Len(TopNodes) : IsString(extractTextFromNode(TopNodes[i]))
        /\ ~IsThrow(split)

-----------------------------------------------------------------------------
(* getStory: the resolution order and the returned object *)

Returned == pc = "returned"

\* What step 1 alone gives for acPlain: the text of the configured field.
ConfiguredValue ==
    IF Truthy(env) /\ HasOwn(Get(data, K_fields), env.s)
    THEN CustomFieldText(Get(Get(data, K_fields), env.s))
    ELSE Undefined

\* What step 2 alone gives: the text of the first field labelled as
\* acceptance criteria that holds a value.
DiscoveredValue ==
    IF DiscoveredField # 0
    THEN CustomFieldText(OptGet(Get(data, K_fields), NameEntries(Get(data, K_names))[DiscoveredField][1]))
    ELSE Undefined

\* The acPlain of the outcome of a step.
AcOf(r) == IF IsThrow(r) THEN r ELSE r.a

\* What step 3 alone gives: the acceptanceCriteria of the split description.
SplitValue ==
    IF Truthy(Description) THEN AcOf(FromDescription(Description, Undefined, Undefined)) ELSE Undefined

\* The text of the section extractSectionByHeading picked.
SectionText(picked) ==
    IF Truthy(picked) /\ Truthy(Get(picked, K_sectionHtml))
    THEN htmlToPlain(Get(picked, K_sectionHtml))
    ELSE Undefined

\* What step 4 alone gives: the text under the heading of the rendered HTML.
SectionValue ==
    IF Truthy(RenderedDescription) THEN SectionText(extractSectionByHeading(RenderedDescription)) ELSE Undefined

StepValues == <<ConfiguredValue, DiscoveredValue, SplitValue, SectionValue>>

\* The value of the lowest-numbered step that gives a non-empty one, '' if
\* none does.
FirstNonEmpty(vs) ==
    IF \E i \in 1..Len(vs) : Truthy(vs[i])
    THEN vs[MinOf({i \in 1..Len(vs) : Truthy(vs[i])})]
    ELSE Str(<<>>)

\* C3: for every payload getStory returns for, the returned acceptanceCriteria
\* is the value of the lowest-numbered of the steps 1 (configured field),
\* 2 (field discovered by label), 3 (split of the description), 4 (section
\* of the rendered HTML) that gives a non-empty value, '' if none does; and
\* once acPlain is non-empty no step changes it.
C3_FirstNonEmptyStepWins ==
    /\ [](Returned => Get(result, K_acceptanceCriteria) = FirstNonEmpty(StepValues))
    /\ [][Truthy(acPlain) => acPlain' = acPlain]_vars

\* getStory returned the value of step 2 for a payload whose steps 3 and 4
\* give other non-empty values, step 1 giving none.
C3_Witness ==
    /\ Returned
    /\ ~Truthy(ConfiguredValue)
    /\ IsString(DiscoveredValue) /\ Truthy(DiscoveredValue)
    /\ IsString(SplitValue) /\ Truthy(SplitValue) /\ SplitValue # DiscoveredValue
    /\ IsString(SectionValue) /\ Truthy(SectionValue) /\ SectionValue # DiscoveredValue
    /\ Get(result, K_acceptanceCriteria) = DiscoveredValue

\* C4: whenever getStory returns, description and acceptanceCriteria of the
\* returned object are both strings.
C4_ResultFieldsAreStrings ==
    Returned => IsString(Get(result, K_description)) /\ IsString(Get(result, K_acceptanceCriteria))

\* getStory returned for a payload in which no step found a description or
\* acceptance criteria: both locals were still undefined at the return.
C4_Witness ==
    /\ Returned
    /\ descriptionPlain = Undefined /\ acPlain = Undefined
    /\ Get(result, K_description) = Str(<<>>) /\ Get(result, K_acceptanceCriteria) = Str(<<>>)

\* C5: once the issue has been fetched getStory never raises: it throws only
\* when the upstream request failed.
C5_OnlyFetchFailureRaises == pc = "threw" => ~resp.ok

\* C10: the description getStory returns is a fixed point of htmlToPlain.
C10_DescriptionIsPlain ==
    Returned => htmlToPlain(Get(result, K_description)) = Get(result, K_description)

-----------------------------------------------------------------------------
(* extractSectionByHeading: the section and the remainder *)

SectionDone == sect # NotRun

\* The plain text of piece i names the acceptance criteria.
NamesAC(seg) == ACContains(Trim(htmlToPlain(Str(seg.html)).s))

\* The pieces that are headings naming the acceptance criteria.
ACHeadings == {i \in 1..Len(segs) : segs[i].h /\ NamesAC(segs[i])}

\* The first heading after piece k, the index after the last piece if none.
NextHeading(k) ==
    IF \E j \in (k + 1)..Len(segs) : segs[j].h
    THEN MinOf({j \in (k + 1)..Len(segs) : segs[j].h})
    ELSE Len(segs) + 1

\* The section of heading k and what is left of the document without them.
SectionFrom(k) ==
    Obj(<< <<K_sectionHtml, Str(HtmlOfSegs(segs, k + 1, NextHeading(k) - 1))>>,
           <<K_withoutSectionHtml,
             Str(HtmlOfSegs(segs, 1, k - 1) \o HtmlOfSegs(segs, NextHeading(k), Len(segs)))>> >>)

\* C11: for a document with a heading whose plain text names the acceptance
\* criteria, extractSectionByHeading returns the section of the first such
\* heading, from the end of the heading to the start of the next heading or
\* the end of the document, and the document without that heading and
\* section; heading, section and remainder make up the whole document.
C11_SectionOfFirstHeading ==
    (SectionDone /\ ACHeadings # {}) =>
        /\ sect = SectionFrom(MinOf(ACHeadings))
        /\ Len(segs[MinOf(ACHeadings)].html) + Len(Get(sect, K_sectionHtml).s)
               + Len(Get(sect, K_withoutSectionHtml).s) = Len(HtmlOfSegs(segs, 1, Len(segs)))

\* The section was cut at the first of two matching headings, with content
\* before it and a heading after its section.
C11_Witness ==
    /\ SectionDone
    /\ Len(segs) = 3
    /\ ~segs[1].h /\ 2 \in ACHeadings /\ 3 \in ACHeadings
    /\ sect = Obj(<< <<K_sectionHtml, Str(<<>>)>>,
                       <<K_withoutSectionHtml, Str(segs[1].html \o segs[3].html)>> >>)

\* C13: a heading is found exactly when the plain text of a heading, not its
\* markup, matches the pattern, also when the text is wrapped in or split
\* across inline tags; the heading runs from its opening to its closing tag,
\* so that the section starts right after the closing tag.
C13_MatchedOnPlainText ==
    SectionDone =>
        /\ sect # Null <=> ACHeadings # {}
        /\ \A k \in ACHeadings : k = MinOf(ACHeadings) =>
               Get(sect, K_sectionHtml) = Str(HtmlOfSegs(segs, k + 1, NextHeading(k) - 1))

\* A heading whose phrase is split across inline tags was found, after a
\* heading that names the acceptance criteria in its markup only.
C13_Witness ==
    /\ SectionDone
    /\ Len(segs) = 3
    /\ segs[1] = HeadingSeg(<<"<","h","6"," ","t","i","t","l","e","=","\"","a","c","c","e","p","t","a","n","c","e"," ","c","r","i","t","e","r","i","a","\"",">","N","o","t","e","s","<","/","h","6",">">>)
    /\ segs[2] = HeadingSeg(<<"<","H","4",">","A","c","c","e","p","t","<","b",">","a","n","c","e","<","/","b",">","<","b","r","/",">","<","i",">","c","r","i","t","e","r","i","a","<","/","i",">",":","<","/","H","4",">">>)
    /\ segs[3] = ContentSeg(<<"<","p",">","A","C"," ","t","e","x","t","<","/","p",">">>)
    /\ Get(sect, K_sectionHtml) = Str(<<"<","p",">","A","C"," ","t","e","x","t","<","/","p",">">>)
    /\ Get(sect, K_withoutSectionHtml) = Str(segs[1].html)

-----------------------------------------------------------------------------
(* getStory: step 4 without a matching heading *)

\* The descriptionPlain of the outcome of a step.
DescriptionOf(r) == IF IsThrow(r) THEN r ELSE r.d

\* What step 3 leaves in descriptionPlain when it runs.
SplitRemainder ==
    IF Truthy(Description)
    THEN DescriptionOf(FromDescription(Description, Undefined, Undefined))
    ELSE Undefined

\* getStory returned after step 4 ran and found no heading: the steps 1 to 3
\* gave no acceptance criteria, there is a rendered description, and
\* extractSectionByHeading returned null for it.
NoHeadingAtStep4 ==
    /\ Returned
    /\ ~Truthy(FirstNonEmpty(<<ConfiguredValue, DiscoveredValue, SplitValue>>))
    /\ Truthy(RenderedDescription)
    /\ extractSectionByHeading(RenderedDescription) = Null

\* C12 as stated: when step 4 finds no heading, the returned description is
\* the plain text of the whole rendered HTML and acceptanceCriteria is ''.
C12_WholeRenderedIsDescription ==
    NoHeadingAtStep4 =>
        /\ Get(result, K_description) = htmlToPlain(RenderedDescription)
        /\ Get(result, K_acceptanceCriteria) = Str(<<>>)

\* C12: when step 4 finds no heading, acceptanceCriteria is '' and the
\* returned description is the one step 3 left if that is non-empty, and the
\* plain text of the whole rendered HTML only if step 3 left none.
C12_RenderedUnlessDescribed ==
    NoHeadingAtStep4 =>
        /\ Get(result, K_acceptanceCriteria) = Str(<<>>)
        /\ Get(result, K_description) =
               IF Truthy(SplitRemainder) THEN SplitRemainder ELSE htmlToPlain(RenderedDescription)

\* Step 4 found no heading in '<p>Rendered</p>' of an issue without a
\* description, and getStory returned the plain text of the rendered HTML.
C12_Witness ==
    /\ NoHeadingAtStep4
    /\ ~Truthy(SplitRemainder)
    /\ RenderedDescription = Str(<<"<","p",">","R","e","n","d","e","r","e","d","<","/","p",">">>)
    /\ Get(result, K_description) = Str(<<"R","e","n","d","e","r","e","d">>)
    /\ Get(result, K_acceptanceCriteria) = Str(<<>>)

-----------------------------------------------------------------------------
(* adfToPlain: lists *)

\* The lines '- ' + trimmed text of the items that are not blank, one per
\* line.
RECURSIVE BulletLines(_)
BulletLines(texts) ==
    IF texts = <<>> THEN <<>>
    ELSE IF Trim(Head(texts)) = <<>> THEN BulletLines(Tail(texts))
    ELSE IF BulletLines(Tail(texts)) = <<>> THEN <<"-"," ">> \o Trim(Head(texts))
    ELSE <<"-"," ">> \o Trim(Head(texts)) \o <<"\n">> \o BulletLines(Tail(texts))

\* C14: the text of a document that is one list is the text of the list
\* without its blank items: one line '- ' + trimmed text per item that is
\* not blank, and nothing for a blank item.
C14_EmptyItemsContributeNothing ==
    \A texts \in SeqsUpTo(ItemTexts, MaxItems) :
        (SplitDone /\ doc = ListDocOf(texts)) =>
            Get(split, K_description) = Str(BulletLines(texts))

\* The text has no white space at either end.
Trimmed(s) == Trim(s) = s

\* C15 as stated: for non-blank d, a, b the document [Paragraph(d),
\* Paragraph('Acceptance Criteria:'), List(ListItem(a)), List(ListItem(b))]
\* splits into description d and acceptanceCriteria '- a\n- b'.
C15_ShapeSplitsForNonBlank ==
    \A d \in ShapeTexts, a \in ShapeTexts, b \in ShapeTexts :
        (SplitDone /\ doc = ShapeDocOf(d, a, b) /\ NonBlank(d) /\ NonBlank(a) /\ NonBlank(b)) =>
            /\ Get(split, K_description) = Str(d)
            /\ Get(split, K_acceptanceCriteria) = Str(<<"-"," ">> \o a \o <<"\n","-"," ">> \o b)

\* C15: the same for non-blank d, a, b without white space at either end,
\* d not itself the acceptance-criteria heading.
C15_ShapeSplitsForTrimmed ==
    \A d \in ShapeTexts, a \in ShapeTexts, b \in ShapeTexts :
        (/\ SplitDone /\ doc = ShapeDocOf(d, a, b)
         /\ NonBlank(d) /\ NonBlank(a) /\ NonBlank(b)
         /\ Trimmed(d) /\ Trimmed(a) /\ Trimmed(b)
         /\ ~SpacedPattern(d)) =>
            /\ Get(split, K_description) = Str(d)
            /\ Get(split, K_acceptanceCriteria) = Str(<<"-"," ">> \o a \o <<"\n","-"," ">> \o b)

\* The example of the shape was split.
C15_Witness ==
    /\ SplitDone
    /\ doc = ShapeDocOf(<<"D","e","s","c"," ","l","i","n","e">>, <<"i","t","e","m"," ","o","n","e">>, <<"i","t","e","m"," ","t","w","o">>)
    /\ Get(split, K_description) = Str(<<"D","e","s","c"," ","l","i","n","e">>)
    /\ Get(split, K_acceptanceCriteria) = Str(<<"-"," ","i","t","e","m"," ","o","n","e","\n","-"," ","i","t","e","m"," ","t","w","o">>)

-----------------------------------------------------------------------------
(* htmlToPlain: totality *)

HtmlDone == hin # NotRun /\ hout # NotRun

\* C16: htmlToPlain gives '' for every falsy argument and a string for every
\* string, whatever its tags: unmatched, unclosed or stray '<' and '>'
\* included; it raises for neither.
C16_TotalOnFalsyAndStrings ==
    HtmlDone =>
        /\ ~Truthy(HtmlOf(hin)) => hout = Str(<<>>)
        /\ IsString(HtmlOf(hin)) => IsString(hout)

\* htmlToPlain returned for a string with a stray '>' and an unclosed '<b',
\* which it leaves as they are.
C16_Witness ==
    /\ HtmlDone
    /\ HtmlOf(hin) = Str(<<">","x","<","b">>)
    /\ hout = Str(<<">","x","<","b">>)

-----------------------------------------------------------------------------
(* getStory: the upstream request *)

\* The route has answered.
StoryAnswered == pc \in {"returned", "threw"}

\* The request getStory sends.
StoryRequest ==
    Sent("GET", <<"h","t","t","p","s",":","/","/","j","i","r","a",".","e","x","a","m","p","l","e","/","r","e","s","t","/","a","p","i","/","3","/","i","s","s","u","e","/","T","S","-","1">>, StoryParams,
         Str(<<"B","a","s","i","c"," ","d","U","B","4","O","n","Q","w","a","w","=","=">>), resp)

\* The route answered with status 500 and this message.
StoryFailedWith(message) ==
    /\ pc = "threw"
    /\ result = Throw(message)
    /\ reply = Reply("story", 500, Obj(<< <<<<"m","e","s","s","a","g","e">>, Str(message)>> >>))

\* C17 as stated: every call of getStory sends exactly one upstream request,
\* and when it fails the route answers with an error.
C17_ExactlyOneRequest ==
    StoryAnswered =>
        /\ Len(upstream) = 1
        /\ ~upstream[1].out.ok => (pc = "threw" /\ reply.status = 500)

\* C17: a call of getStory sends one upstream request when the session holds
\* credentials and none when it does not; a request that was sent is never
\* followed by another one; and when it fails the call raises the error of
\* the failure, which the route answers with status 500.
C17_OneRequestWhenConnected ==
    /\ [](pc # "fetch" =>
            /\ upstream = IF Connected(CredsOf(session)) THEN <<StoryRequest>> ELSE <<>>
            /\ (Connected(CredsOf(session)) /\ ~resp.ok) => StoryFailedWith(RequestError(resp))
            /\ ~Connected(CredsOf(session)) => StoryFailedWith(<<"N","o","t"," ","c","o","n","n","e","c","t","e","d"," ","t","o"," ","J","i","r","a">>))
    /\ [][pc # "fetch" => upstream' = upstream]_vars

\* The request of a connected client timed out: one request was sent and
\* the route answered with status 500.
C17_Witness ==
    /\ session = ConnectedSession
    /\ resp = Failure(0, Undefined, <<"t","i","m","e","o","u","t"," ","o","f"," ","1","5","0","0","0","m","s"," ","e","x","c","e","e","d","e","d">>)
    /\ upstream = <<StoryRequest>>
    /\ StoryFailedWith(<<"t","i","m","e","o","u","t"," ","o","f"," ","1","5","0","0","0","m","s"," ","e","x","c","e","e","d","e","d">>)

-----------------------------------------------------------------------------
(* The router: credentials, getStories and createSubtask *)

RECURSIVE Holds(_, _)
\* A string inside the value v contains the text.
Holds(v, text) ==
    CASE v.t = "string" -> Includes(v.s, text)
      [] v.t = "array" -> \E i \in 1..Len(v.a) : Holds(v.a[i], text)
      [] v.t = "object" -> \E i \in 1..Len(v.kv) : Holds(v.kv[i][2], text)
      [] OTHER -> FALSE

\* C18: no response body the router sends holds the authHeader saved in the
\* session.
C18_NoCredentialsInBodies ==
    (reply # NotRun /\ Truthy(CredsOf(session))) =>
        ~Holds(reply.body, Get(CredsOf(session), <<"a","u","t","h","H","e","a","d","e","r">>).s)

\* The route has answered.
Answers(route) == RouterReady /\ reply # NotRun /\ reply.route = route

\* The type name of the issue contains 'story', in any case.
NamedStory(i) == Includes(LowerText(IssueTypeName(i)), <<"s","t","o","r","y">>)

\* The issues of a search that are named stories, as the route returns
\* them: key and summary.
StoryLike(issues) ==
    Arr([k \in 1..Len(SelectSeq(issues, NamedStory)) |->
            Obj(<< <<<<"k","e","y">>, Get(SelectSeq(issues, NamedStory)[k], <<"k","e","y">>)>>,
                   <<<<"s","u","m","m","a","r","y">>, Get(Get(SelectSeq(issues, NamedStory)[k], <<"f","i","e","l","d","s">>), <<"s","u","m","m","a","r","y">>)>> >>)])

\* The request is a search with this JQL.
IsSearch(call, jql) ==
    /\ call.method = "GET"
    /\ call.url = <<"h","t","t","p","s",":","/","/","j","i","r","a",".","e","x","a","m","p","l","e","/","r","e","s","t","/","a","p","i","/","3","/","s","e","a","r","c","h","/","j","q","l">>
    /\ call.payload = Str(jql)

\* GET /stories answered with status 500 and the error of this failure.
StoriesFailedWith(f) == reply.status = 500 /\ reply.body = Message(RequestError(f))

\* C19: when the search by issue type fails, getStories sends exactly one
\* more search, without the type filter, and returns the issues of it whose
\* type name contains 'story'; when that search fails too its error is
\* raised; no call sends more than two searches; and when the request for
\* the issue types fails its error is raised and no search is sent.
C19_OneFallbackSearch ==
    Answers("stories") =>
        /\ Len(upstream) <= 3
        /\ (Len(upstream) >= 1 /\ ~upstream[1].out.ok) =>
               (Len(upstream) = 1 /\ StoriesFailedWith(upstream[1].out))
        /\ (Len(upstream) >= 2 /\ ~upstream[2].out.ok) =>
               /\ Len(upstream) = 3
               /\ IsSearch(upstream[3], <<"O","R","D","E","R"," ","B","Y"," ","c","r","e","a","t","e","d"," ","D","E","S","C">>)
               /\ ~upstream[3].out.ok => StoriesFailedWith(upstream[3].out)
               /\ upstream[3].out = Success(Obj(<< <<<<"i","s","s","u","e","s">>, Arr(FoundIssues)>> >>)) =>
                      reply = Reply("stories", 200, StoryLike(FoundIssues))

\* The search by the types 'Story' and 'User "Story"' timed out, and the
\* route answered with the stories TS-1 and TS-3 of the broad search.
C19_Witness ==
    /\ Answers("stories")
    /\ Len(upstream) = 3
    /\ IsSearch(upstream[2], <<"i","s","s","u","e","t","y","p","e"," ","i","n"," ","(","\"","S","t","o","r","y","\"",","," ","\"","U","s","e","r"," ","\\","\"","S","t","o","r","y","\\","\"","\"",")"," ","O","R","D","E","R"," ","B","Y"," ","c","r","e","a","t","e","d"," ","D","E","S","C">>)
    /\ upstream[2].out = Failure(0, Undefined, <<"t","i","m","e","o","u","t"," ","o","f"," ","1","5","0","0","0","m","s"," ","e","x","c","e","e","d","e","d">>)
    /\ reply.status = 200
    /\ reply.body = Arr(<< Obj(<< <<<<"k","e","y">>, Str(<<"T","S","-","1">>)>>, <<<<"s","u","m","m","a","r","y">>, Str(<<"O","n","e">>)>> >>),
                          Obj(<< <<<<"k","e","y">>, Str(<<"T","S","-","3">>)>>, <<<<"s","u","m","m","a","r","y">>, Str(<<"T","h","r","e","e">>)>> >>) >>)

\* The position of each request of createSubtask.
IsParentFetch(call) ==
    call.method = "GET" /\ call.url = <<"h","t","t","p","s",":","/","/","j","i","r","a",".","e","x","a","m","p","l","e","/","r","e","s","t","/","a","p","i","/","3","/","i","s","s","u","e","/","T","S","-","1">>
IsTypeLookup(call) ==
    call.method = "GET" /\ call.url = <<"h","t","t","p","s",":","/","/","j","i","r","a",".","e","x","a","m","p","l","e","/","r","e","s","t","/","a","p","i","/","3","/","i","s","s","u","e","t","y","p","e">>
IsCreate(call) ==
    call.method = "POST" /\ call.url = <<"h","t","t","p","s",":","/","/","j","i","r","a",".","e","x","a","m","p","l","e","/","r","e","s","t","/","a","p","i","/","3","/","i","s","s","u","e">>

\* The issue types the lookup gave hold one named 'Sub-task' or 'Subtask'.
SubtaskTypeFound(out) ==
    /\ out.ok
    /\ out.body.t = "array"
    /\ \E k \in 1..Len(out.body.a) :
           /\ ~IsNullish(out.body.a[k])
           /\ LowerText(Get(out.body.a[k], <<"n","a","m","e">>).s) \in {<<"s","u","b","-","t","a","s","k">>, <<"s","u","b","t","a","s","k">>}

\* C20: createSubtask sends its requests in the order parent fetch, type
\* lookup, creation; the creation is sent only after a parent fetch that
\* succeeded and a lookup that found a subtask type; and when the parent
\* fetch fails, or the lookup fails or finds none, no issue is created and
\* the error's message starts with 'Failed to create subtask:'.
C20_CreateAfterParentAndType ==
    (Answers("create-test-subtask") /\ reply.status \notin {400, 401}
        /\ Connected(CredsOf(session))) =>
        /\ Len(upstream) \in 1..3
        /\ IsParentFetch(upstream[1])
        /\ Len(upstream) >= 2 => IsTypeLookup(upstream[2])
        /\ Len(upstream) >= 3 =>
               (IsCreate(upstream[3]) /\ upstream[1].out.ok /\ SubtaskTypeFound(upstream[2].out))
        /\ (\/ ~upstream[1].out.ok
            \/ Len(upstream) >= 2 /\ ~SubtaskTypeFound(upstream[2].out)) =>
               /\ \A k \in 1..Len(upstream) : ~IsCreate(upstream[k])
               /\ reply.status = 500
               /\ SubSeq(Get(reply.body, <<"m","e","s","s","a","g","e">>).s, 1, 25) = <<"F","a","i","l","e","d"," ","t","o"," ","c","r","e","a","t","e"," ","s","u","b","t","a","s","k",":">>

\* The subtask was created after the parent was fetched and the type
\* 'Sub-task' was found.
C20_Witness ==
    /\ Answers("create-test-subtask")
    /\ Len(upstream) = 3
    /\ IsParentFetch(upstream[1]) /\ IsTypeLookup(upstream[2]) /\ IsCreate(upstream[3])
    /\ upstream[3].payload =
           SubtaskData(Str(<<"T","S">>), Str(<<"T","S","-","1">>), Str(<<"C","r","e","a","t","e"," ","T","e","s","t","c","a","s","e","s">>), IssueType(<<"5">>, <<"S","u","b","-","t","a","s","k">>))
    /\ reply = Reply("create-test-subtask", 200,
                     Obj(<< <<<<"o","k">>, Bool(TRUE)>>, <<<<"s","u","b","t","a","s","k","K","e","y">>, Str(<<"T","S","-","9">>)>> >>))

-----------------------------------------------------------------------------
(* C25: no request without credentials *)

\* The call of the service function has returned or thrown.
ServiceDone == called # "none" /\ (called = "getStory" => pc \in {"returned", "threw"})

\* The call was handed an object with a baseUrl and an authHeader, neither
\* empty.
WithCredentials ==
    /\ CredsOf(session).t = "object"
    /\ Get(CredsOf(session), <<"b","a","s","e","U","r","l">>) \notin {Undefined, Str(<<>>)}
    /\ Get(CredsOf(session), <<"a","u","t","h","H","e","a","d","e","r">>) \notin {Undefined, Str(<<>>)}

(* C25: a service function called with missing credentials, or with an     *)
(* empty baseUrl or authHeader, sends no request to Jira and fails with     *)
(* the error 'Not connected to Jira'.                                       *)
C25_NoRequestWithoutCredentials ==
    ~WithCredentials =>
        /\ upstream = <<>>
        /\ ServiceDone => result = Throw(<<"N","o","t"," ","c","o","n","n","e","c","t","e","d"," ","t","o"," ","J","i","r","a">>)

\* createSubtask was called with an empty authHeader and has failed.
C25_Witness ==
    /\ called = "createSubtask"
    /\ Truthy(Get(CredsOf(session), <<"b","a","s","e","U","r","l">>))
    /\ Get(CredsOf(session), <<"a","u","t","h","H","e","a","d","e","r">>) = Str(<<>>)
    /\ IsThrow(result)

-----------------------------------------------------------------------------
(* C24: POST /connect saves the credentials before the test *)

\* POST /connect was the request answered last.
ConnectAnswered == reply # NotRun /\ reply.route = "connect"

\* The body has a baseUrl, an email and an apiToken.
Supplied(body) ==
    /\ Truthy(OptGet(body, <<"b","a","s","e","U","r","l">>))
    /\ Truthy(OptGet(body, <<"e","m","a","i","l">>))
    /\ Truthy(OptGet(body, <<"a","p","i","T","o","k","e","n">>))

\* The credentials are the ones this body describes: its baseUrl without a
\* trailing slash, and Basic authentication for its email and apiToken.
BuiltFrom(creds, body) ==
    /\ creds.t = "object"
    /\ Get(creds, <<"b","a","s","e","U","r","l">>) = Str(StripSlash(JsToString(Get(body, <<"b","a","s","e","U","r","l">>))))
    /\ Get(creds, <<"a","u","t","h","H","e","a","d","e","r">>)
           = Str(BasicAuth(JsToString(Get(body, <<"e","m","a","i","l">>)), JsToString(Get(body, <<"a","p","i","T","o","k","e","n">>))))

(* C24 as stated: after POST /connect with a baseUrl, an email and an       *)
(* apiToken, the credentials of the session are the ones built from that    *)
(* request; without one of the three the answer is 400.                     *)
C24_LastSuppliedCredentials ==
    ConnectAnswered =>
        IF Supplied(req.body)
        THEN Truthy(CredsOf(session)) => BuiltFrom(CredsOf(session), req.body)
        ELSE reply.status = 400

\* The request of POST /connect has what the route builds credentials from:
\* the three fields, baseUrl a string.
Buildable(body) == Supplied(body) /\ IsString(Get(body, <<"b","a","s","e","U","r","l">>))

(* C24: POST /connect with a string baseUrl, an email and an apiToken       *)
(* leaves the credentials built from it in the session and answers 200, or  *)
(* 500 when the connection test failed; a request missing one of the three  *)
(* answers 400, one whose baseUrl is no string answers 500, and both leave  *)
(* the session as it was.                                                   *)
C24_LastBuildableCredentials ==
    /\ [](ConnectAnswered =>
            IF Buildable(req.body)
            THEN BuiltFrom(CredsOf(session), req.body) /\ reply.status \in {200, 500}
            ELSE reply.status = IF Supplied(req.body) THEN 500 ELSE 400)
    /\ [][(reply' # NotRun /\ reply'.route = "connect" /\ ~Buildable(req'.body)) => session' = session]_vars

\* The connection test of a request with credentials failed, and the
\* credentials are in the session.
C24_Witness ==
    /\ ConnectAnswered
    /\ Buildable(req.body)
    /\ reply.status = 500
    /\ upstream # <<>>
    /\ BuiltFrom(CredsOf(session), req.body)

-----------------------------------------------------------------------------
(* C22: a test case is approved, rejected or not reviewed *)

(* C22: no id is both approved and rejected, so the status of a row is     *)
(* 'Approved' exactly when its id is approved, 'Rejected' exactly when it   *)
(* is rejected and 'Not Reviewed' when it is neither; an approval leaves    *)
(* the id approved and not rejected, a rejection rejected and not approved. *)
C22_ApprovedOrRejected ==
    /\ [](/\ approvedTestCases \cap rejectedTestCases = {}
          /\ results # Null =>
                \A k \in 1..Len(results.cases) :
                    /\ Status(results.cases[k]) = "Approved" <=> results.cases[k].id \in approvedTestCases
                    /\ Status(results.cases[k]) = "Rejected" <=> results.cases[k].id \in rejectedTestCases
                    /\ Status(results.cases[k]) = "Not Reviewed"
                           <=> results.cases[k].id \notin approvedTestCases \cup rejectedTestCases)
    /\ [][\A id \in CaseIds :
            /\ handleApproveTestCase(id) => id \in approvedTestCases' /\ id \notin rejectedTestCases'
            /\ handleRejectTestCase(id) => id \in rejectedTestCases' /\ id \notin approvedTestCases']_vars

\* One shown test case is approved and another rejected.
C22_Witness ==
    /\ results # Null
    /\ \E j, k \in 1..Len(results.cases) :
          /\ results.cases[j].id \in approvedTestCases
          /\ results.cases[k].id \in rejectedTestCases

-----------------------------------------------------------------------------
(* C23: completing the review keeps the approved test cases *)

\* The places of the cases whose id is in keep, in order.
KeptPlaces(cases, keep) == {k \in 1..Len(cases) : cases[k].id \in keep}

\* The n-th smallest of a set of numbers.
NthOf(S, n) == CHOOSE x \in S : Cardinality({y \in S : y <= x}) = n

(* C23: handleCompleteReview leaves in results.cases the cases whose id was *)
(* approved, in the order they had, empties checkedTestCases,               *)
(* approvedTestCases and rejectedTestCases, and leaves expandedTestCases,   *)
(* formData, selectedStory and the other fields of results as they were.    *)
C23_KeepsApprovedOnly ==
    [][handleCompleteReview =>
         /\ Len(results'.cases) = Cardinality(KeptPlaces(results.cases, approvedTestCases))
         /\ \A n \in 1..Len(results'.cases) :
               results'.cases[n] = results.cases[NthOf(KeptPlaces(results.cases, approvedTestCases), n)]
         /\ results'.model = results.model /\ results'.promptTokens = results.promptTokens
         /\ checkedTestCases' = {} /\ approvedTestCases' = {} /\ rejectedTestCases' = {}
         /\ \A k \in 1..Len(results'.cases) : results'.cases[k].id \notin approvedTestCases' \cup rejectedTestCases'
         /\ expandedTestCases' = expandedTestCases
         /\ formData' = formData
         /\ selectedStory' = selectedStory]_vars

\* A review was completed: of three generated cases the second was dropped,
\* and nothing is ticked, approved or rejected; a row is still expanded and
\* a story linked.
C23_Witness ==
    /\ results # Null
    /\ Len(results.cases) = 2
    /\ results.cases[1].title = 1 /\ results.cases[2].title = 3
    /\ checkedTestCases = {} /\ approvedTestCases = {} /\ rejectedTestCases = {}
    /\ expandedTestCases # {}
    /\ selectedStory = LinkedStory

-----------------------------------------------------------------------------
(* C21: the file is uploaded to the subtask just created *)

\* The request was answered with a 2xx response.
Succeeded(p) == p.answer \notin {NotRun, Undefined} /\ p.answer.status \in 200..299

====
